---- MODULE Spec2Model ----
(***************************************************************************)
(* p-unzip: the parallel extraction engine (src/src/unzip.cpp), its worker *)
(* threads, the distribution strategies (src/src/distribution.cpp), the    *)
(* archive facade (src/src/zip.cpp) and the file-system layer              *)
(* (src/src/fs.cpp), as a state machine.                                   *)
(*                                                                         *)
(* Strings are sequences of one-character strings, so that the code's      *)
(* character-level operations (splitting at '/', the last '.', the hash of *)
(* an extension) are computed and not assumed.                             *)
(***************************************************************************)
EXTENDS Integers, Sequences, FiniteSets, TLC

(***************************************************************************)
(* Bounds of the model.                                                    *)
(***************************************************************************)
\* Largest number of jobs (worker threads) p_unzip is called with.
MaxCalls == 5

MaxPaths == 3

MaxJobs == 2
\* Largest number of entries of the archives drawn for the distribution runs.
MaxEntries == 3
\* The wall-clock time (epoch seconds) at which the run writes its files.
CurrentTime == 9

\* The handles made over the life of the resources.
MaxHandles == 3

(***************************************************************************)
(* Program constants.                                                      *)
(***************************************************************************)
HashA == 54059
HashB == 76963
HashInit == 37
size_weight == 1
file_weight == 5000000
MAX_JOBS == 64

(***************************************************************************)
(* Generic helpers on sequences.                                           *)
(***************************************************************************)
Range(s) == { s[i] : i \in DOMAIN s }

Min(a, b) == IF a < b THEN a ELSE b

Max(a, b) == IF a < b THEN b ELSE a

RECURSIVE SumSeq(_)
SumSeq(s) == IF s = <<>> THEN 0 ELSE Head(s) + SumSeq(Tail(s))

RECURSIVE Concat(_)
Concat(ss) == IF ss = <<>> THEN <<>> ELSE Head(ss) \o Concat(Tail(ss))

\* All orderings (as sequences without repetition) of the positions 1..n.
Perms(n) == { p \in [1..n -> 1..n] : \A i, j \in 1..n : i # j => p[i] # p[j] }

(***************************************************************************)
(* Characters.  Ord gives the character code the hash works on.            *)
(***************************************************************************)
cs == << "a","b","c","d","e","f","g","h","i","j","k","l","m",
         "n","o","p","q","r","s","t","u","v","w","x","y","z",
         "0","1","2","3","4","5","6","7","8","9" >>

CsIndex(c) == CHOOSE i \in DOMAIN cs : cs[i] = c

Ord(c) ==
    CASE c = "."  -> 46
      [] c = "/"  -> 47
      [] c = ":"  -> 58
      [] c = "\\" -> 92
      [] OTHER    -> IF CsIndex(c) <= 26 THEN 96 + CsIndex(c)
                                         ELSE 48 + (CsIndex(c) - 27)

\* Lexicographic order of two strings by character code (std::string <).
RECURSIVE StrLess(_, _)
StrLess(a, b) ==
    IF b = <<>> THEN FALSE
    ELSE IF a = <<>> THEN TRUE
    ELSE IF Ord(Head(a)) # Ord(Head(b)) THEN Ord(Head(a)) < Ord(Head(b))
    ELSE StrLess(Tail(a), Tail(b))

starts_with(s, c) == Len(s) > 0 /\ s[1] = c

ends_with(s, c) == Len(s) > 0 /\ s[Len(s)] = c

(***************************************************************************)
(* string_hash and ext3.  A uint32_t is kept as its four bytes, least      *)
(* significant first, so that the arithmetic is modulo 2^32.               *)
(***************************************************************************)
Bytes4(n) == << n % 256, (n \div 256) % 256, (n \div 65536) % 256,
                (n \div 16777216) % 256 >>

\* (h * k) mod 2^32, schoolbook multiplication on bytes.
Mul32(h, k) ==
    LET col(n) == SumSeq([ i \in 1..n |-> h[i] * k[n + 1 - i] ])
        c1 == col(1)
        c2 == col(2) + (c1 \div 256)
        c3 == col(3) + (c2 \div 256)
        c4 == col(4) + (c3 \div 256)
    IN  << c1 % 256, c2 % 256, c3 % 256, c4 % 256 >>

RECURSIVE XorBits(_, _, _)
XorBits(a, b, n) ==
    IF n = 0 THEN 0
    ELSE (((a % 2) + (b % 2)) % 2) + 2 * XorBits(a \div 2, b \div 2, n - 1)

Xor32(a, b) == [ i \in 1..4 |-> XorBits(a[i], b[i], 8) ]

RECURSIVE string_hash_from(_, _)
string_hash_from(hash, s) ==
    IF s = <<>> THEN hash
    ELSE string_hash_from(
             Xor32(Mul32(hash, Bytes4(HashA)),
                   Mul32(Bytes4(Ord(Head(s))), Bytes4(HashB))),
             Tail(s))

string_hash(s) == string_hash_from(Bytes4(HashInit), s)

\* (the number whose bytes are h[from..4]) mod m
Mod32From(h, from, m) ==
    LET RECURSIVE horner(_, _)
        horner(i, acc) == IF i < from THEN acc
                          ELSE horner(i - 1, ((acc * 256) + h[i]) % m)
    IN  horner(4, 0)

ext3(s) ==
    LET h == string_hash(s)
        get(shift) == cs[Mod32From(h, shift + 1, Len(cs)) + 1]
    IN  << get(0), get(1), get(2) >>

(***************************************************************************)
(* FilePath: a sequence of non-empty components.                           *)
(***************************************************************************)
\* The conditions under which the FilePath constructor throws.
\* The checks of the constructor without the one for backslashes.
FilePathFails_no_backslash(path) ==
    /\ path # <<>>
    /\ \/ starts_with(path, "/")
       \/ ":" \in Range(path)

FilePathFails(path) ==
    /\ path # <<>>
    /\ \/ starts_with(path, "/")
       \/ ":" \in Range(path)
       \/ "\\" \in Range(path)

\* Split at '/', dropping empty components.
RECURSIVE SplitFrom(_, _, _)
SplitFrom(path, cur, acc) ==
    IF path = <<>>
    THEN IF cur = <<>> THEN acc ELSE Append(acc, cur)
    ELSE IF Head(path) = "/"
         THEN SplitFrom(Tail(path), <<>>,
                        IF cur = <<>> THEN acc ELSE Append(acc, cur))
         ELSE SplitFrom(Tail(path), Append(cur, Head(path)), acc)

FilePath(path) == SplitFrom(path, <<>>, <<>>)

RECURSIVE FilePathStr(_)
FilePathStr(fp) ==
    IF fp = <<>> THEN <<>>
    ELSE IF Len(fp) = 1 THEN fp[1]
    ELSE fp[1] \o <<"/">> \o FilePathStr(Tail(fp))

dirname(fp) == SubSeq(fp, 1, Len(fp) - 1)

basename(fp) == fp[Len(fp)]

add_ext(fp, ext) ==
    IF fp = <<>> THEN << ext >>
    ELSE [ fp EXCEPT ![Len(fp)] = @ \o ext ]

\* Position of the last '.' of s, 0 when there is none.
LastDot(s) ==
    LET D == { i \in DOMAIN s : s[i] = "." }
    IN  IF D = {} THEN 0 ELSE CHOOSE i \in D : \A j \in D : j <= i

\* split_ext on strings: [has |-> FALSE] or the parts left and right of
\* the last dot.
split_ext_str(s) ==
    LET pos == LastDot(s)
    IN  IF pos = 0 THEN [ has |-> FALSE ]
        ELSE [ has |-> TRUE, first |-> SubSeq(s, 1, pos - 1),
               second |-> SubSeq(s, pos + 1, Len(s)) ]

\* split_ext on FilePaths: the first part keeps the dot.
split_ext(fp) ==
    IF fp = <<>> THEN [ has |-> FALSE ]
    ELSE LET split == split_ext_str(basename(fp))
         IN  IF ~split.has THEN [ has |-> FALSE ]
             ELSE [ has |-> TRUE,
                    first |-> dirname(fp) \o FilePath(split.first \o <<".">>),
                    second |-> FilePath(split.second) ]

\* A NameMap that shortens every extension of more than three characters.
get_tmp_name_any_dot(short_exts_on, input) ==
    IF ~short_exts_on THEN input
    ELSE LET opt_p == split_ext(FilePath(input))
         IN  IF ~opt_p.has THEN input
             ELSE IF Len(FilePathStr(opt_p.second)) > 3
             THEN FilePathStr(add_ext(opt_p.first, ext3(FilePathStr(opt_p.second))))
             ELSE input

\* The temporary name of an archived name (the NameMap of p_unzip).
get_tmp_name(short_exts_on, input) ==
    IF ~short_exts_on THEN input
    ELSE LET opt_p == split_ext(FilePath(input))
         IN  IF ~opt_p.has THEN input
             ELSE LET fst == opt_p.first
                      snd == FilePathStr(opt_p.second)
                  IN  IF basename(fst) # <<".">> /\ Len(snd) > 3
                      THEN FilePathStr(add_ext(fst, ext3(snd)))
                      ELSE input

(***************************************************************************)
(* Archive entries (ZipStat).  An entry is a record                        *)
(*   [index, name, size, mtime, valid]                                     *)
(* where valid is the set of fields the codec marked valid; a getter of a  *)
(* field that is not valid throws.                                         *)
(***************************************************************************)
AllFields == { "index", "name", "size", "mtime" }

Entry(i, n, sz, mt) ==
    [ index |-> i, name |-> n, size |-> sz, mtime |-> mt, valid |-> AllFields ]

is_folder(zs) == ends_with(zs.name, "/")

\* ZipStat::folder() throws when the FilePath constructor or dirname does.
folder_fails(zs) ==
    \/ "name" \notin zs.valid
    \/ FilePathFails(zs.name)
    \/ (~is_folder(zs) /\ FilePath(zs.name) = <<>>)

folder(zs) ==
    IF is_folder(zs) THEN FilePath(zs.name) ELSE dirname(FilePath(zs.name))

(***************************************************************************)
(* Distribution strategies.  A strategy yields the set of results the      *)
(* build can produce (std::sort leaves the order of equal keys open); a    *)
(* result is [ok |-> TRUE, lists |-> index_lists] or Thrown.               *)
(***************************************************************************)
Thrown == [ ok |-> FALSE, lists |-> <<>> ]

Returned(lists) == [ ok |-> TRUE, lists |-> lists ]

EmptyLists(threads) == [ t \in 1..threads |-> <<>> ]

push_back(thread_idxs, where, idx) ==
    [ thread_idxs EXCEPT ![where + 1] = Append(@, idx) ]

\* The orders std::sort may leave stats in; less is the comparison, given
\* as the set of the pairs << l, r >> of elements with l before r.
SortOutcomes(stats, less) ==
    { [ i \in 1..Len(stats) |-> stats[p[i]] ] : p \in
        { q \in Perms(Len(stats)) :
            \A i, j \in 1..Len(stats) :
                i < j => << stats[q[j]], stats[q[i]] >> \notin less } }

\* The pairs of elements of a vector.
PairsOf(stats) == Range(stats) \X Range(stats)

\* The getters a strategy calls throw on a field that is not valid.
ReadsFail(files, fields) == \E i \in DOMAIN files : ~(fields \subseteq files[i].valid)

\* A loop that deals the files out from the last thread to the first.
RECURSIVE cyclic_loop_backwards(_, _, _, _)
cyclic_loop_backwards(threads, files, count, thread_idxs) ==
    IF files = <<>> THEN thread_idxs
    ELSE cyclic_loop_backwards(threads, Tail(files), count + 1,
             push_back(thread_idxs, threads - 1 - (count % threads),
                       Head(files).index))

RECURSIVE cyclic_loop(_, _, _, _)
cyclic_loop(threads, files, count, thread_idxs) ==
    IF files = <<>> THEN thread_idxs
    ELSE cyclic_loop(threads, Tail(files), count + 1,
                     push_back(thread_idxs, count % threads, Head(files).index))

\* What count % threads and the push_back that follows it can come to
\* when threads is zero (a division by zero, then an access to an empty
\* vector, both undefined): the process is stopped by a trap, which is
\* no return just as a throw is none, or the function goes on and returns
\* its vector of zero lists.
DivisionByZero == { Thrown, Returned(<<>>) }

distribution_cyclic(threads, files) ==
    IF ReadsFail(files, {"index"}) THEN { Thrown }
    ELSE IF threads = 0 /\ files # <<>> THEN DivisionByZero
    ELSE { Returned(cyclic_loop(threads, files, 0, EmptyLists(threads))) }

by_name(l, r) == StrLess(l.name, r.name)

\* The loop of distribution_sliced; FALSE stands for a FAIL_ that fired.
RECURSIVE sliced_loop(_, _, _, _, _, _)
sliced_loop(threads, stats, count, chunk, sliced_end, thread_idxs) ==
    IF stats = <<>> THEN Returned(thread_idxs)
    ELSE LET where == IF count < sliced_end THEN count \div chunk
                                            ELSE count % threads
         IN  IF where >= threads THEN Thrown
             ELSE sliced_loop(threads, Tail(stats), count + 1, chunk, sliced_end,
                              push_back(thread_idxs, where, Head(stats).index))

sliced_on(threads, stats) ==
    LET chunk      == Max(Len(stats) \div threads, 1)
        residual   == Len(stats) % threads
        sliced_end == Len(stats) - residual
    IN  IF \/ chunk < 1
           \/ chunk > Len(stats)
           \/ residual > threads
           \/ sliced_end > Len(stats)
        THEN Thrown
        ELSE sliced_loop(threads, stats, 0, chunk, sliced_end, EmptyLists(threads))

\* The slices cut from the files as they come, without the sort.
distribution_sliced_unsorted(threads, files) ==
    IF ReadsFail(files, {"index", "name"}) THEN { Thrown }
    ELSE { sliced_on(threads, files) }

distribution_sliced(threads, files) ==
    IF ReadsFail(files, {"index", "name"}) THEN { Thrown }
    ELSE { sliced_on(threads, stats) : stats \in
        SortOutcomes(files,
            { pr \in PairsOf(files) : by_name(pr[1], pr[2]) }) }

by_size(l, r) == l.size > r.size

\* The last position holding the least value (0-based).
min_element_last(totals) ==
    (CHOOSE i \in DOMAIN totals :
        /\ \A j \in DOMAIN totals : totals[i] <= totals[j]
        /\ \A j \in DOMAIN totals : j > i => totals[j] > totals[i]) - 1

\* std::min_element: the first position holding the least value (0-based).
min_element(totals) ==
    (CHOOSE i \in DOMAIN totals :
        /\ \A j \in DOMAIN totals : totals[i] <= totals[j]
        /\ \A j \in DOMAIN totals : j < i => totals[j] > totals[i]) - 1

bytes_weight(zs) == zs.size

runtime_weight(zs) == size_weight * zs.size + file_weight * 1

\* The greedy loop of distribution_bytes and distribution_runtime: each
\* item goes to the thread with the least running total; weights[k] is
\* what the k-th item adds to the total.
RECURSIVE greedy_loop(_, _, _, _, _)
greedy_loop(threads, stats, weights, totals, thread_idxs) ==
    IF stats = <<>> THEN Returned(thread_idxs)
    ELSE LET where == min_element(totals)
         IN  IF where < 0 \/ where >= threads THEN Thrown
             ELSE greedy_loop(threads, Tail(stats), Tail(weights),
                              [ totals EXCEPT ![where + 1] = @ + Head(weights) ],
                              push_back(thread_idxs, where, Head(stats).index))

distribution_bytes(threads, files) ==
    IF ReadsFail(files, {"index", "size"}) THEN { Thrown }
    ELSE { greedy_loop(threads, stats,
                       [ k \in DOMAIN stats |-> bytes_weight(stats[k]) ],
                       [ t \in 1..threads |-> 0 ], EmptyLists(threads))
           : stats \in
               SortOutcomes(files,
                   { pr \in PairsOf(files) : by_size(pr[1], pr[2]) }) }

distribution_runtime(threads, files) ==
    IF ReadsFail(files, {"index", "size"}) THEN { Thrown }
    ELSE { greedy_loop(threads, stats,
                       [ k \in DOMAIN stats |-> runtime_weight(stats[k]) ],
                       [ t \in 1..threads |-> 0 ], EmptyLists(threads))
           : stats \in
               SortOutcomes(files,
                   { pr \in PairsOf(files) : by_size(pr[1], pr[2]) }) }

\* The folders of files, as the keys of folder_map.
FolderKeys(files) == { folder(files[i]) : i \in DOMAIN files }

\* Data of one folder: the indexes of its files in input order, and the
\* sum of their weights.
RECURSIVE folder_idxs(_, _)
folder_idxs(files, key) ==
    IF files = <<>> THEN <<>>
    ELSE (IF folder(Head(files)) = key THEN << Head(files).index >> ELSE <<>>)
         \o folder_idxs(Tail(files), key)

RECURSIVE folder_metric(_, _)
folder_metric(files, key) ==
    IF files = <<>> THEN 0
    ELSE (IF folder(Head(files)) = key THEN runtime_weight(Head(files)) ELSE 0)
         + folder_metric(Tail(files), key)

FolderData(files, key) ==
    [ m_idxs |-> folder_idxs(files, key), m_metric |-> folder_metric(files, key) ]

\* A comparison that sorts the folders in ascending order.
by_metric_ascending(l, r) == l.m_metric < r.m_metric

by_metric(l, r) == l.m_metric > r.m_metric

RECURSIVE folder_loop(_, _, _, _)
folder_loop(threads, folder_infos, metrics, thread_idxs) ==
    IF folder_infos = <<>> THEN Returned(thread_idxs)
    ELSE LET idx  == min_element(metrics)
             info == Head(folder_infos)
         IN  IF idx < 0 \/ idx >= threads THEN Thrown
             ELSE folder_loop(threads, Tail(folder_infos),
                              [ metrics EXCEPT ![idx + 1] = @ + info.m_metric ],
                              [ thread_idxs EXCEPT ![idx + 1] = @ \o info.m_idxs ])

\* The folder_infos vector before sorting: one Data per key of folder_map
\* (any order of the keys: the sort that follows decides the order).
FolderInfos(files) ==
    LET keys == FolderKeys(files)
        ord  == CHOOSE f \in [ 1..Cardinality(keys) -> keys ] :
                    \A i, j \in 1..Cardinality(keys) : i # j => f[i] # f[j]
    IN  [ i \in 1..Cardinality(keys) |-> FolderData(files, ord[i]) ]

distribution_folder_runtime(threads, files) ==
    IF ReadsFail(files, {"index", "name", "size"}) THEN { Thrown }
    ELSE { folder_loop(threads, infos, [ t \in 1..threads |-> 0 ], EmptyLists(threads))
           : infos \in
               SortOutcomes(FolderInfos(files),
                   { pr \in PairsOf(FolderInfos(files)) : by_metric(pr[1], pr[2]) }) }

\* The sanity checks of the wrapper on what a strategy returned.
wrapper(threads, files, result) ==
    IF ~result.ok THEN Thrown
    ELSE LET thread_idxs == result.lists
             all   == Concat(thread_idxs)
             count == Len(all)
         IN  IF count # Len(files) THEN Thrown
             ELSE IF \E i, j \in DOMAIN all : i < j /\ all[i] = all[j] THEN Thrown
             ELSE Returned(thread_idxs)

\* The names registered in the global map `distribute` at program load.
Registered == { "cyclic", "sliced", "bytes", "runtime", "folder_runtime" }

has_key_distribute(strategy_name) == strategy_name \in Registered

\* A table whose every strategy hands the whole list of files to every
\* thread, with no wrapper to check the lists.
distribute_to_all(strategy_name, threads, files) ==
    { Returned([ t \in 1..threads |-> [ k \in DOMAIN files |-> files[k].index ] ]) }

\* distribute[strategy]( jobs, files ): the results of the wrapped strategy.
distribute(strategy_name, threads, files) ==
    LET results ==
            CASE strategy_name = "cyclic"  -> distribution_cyclic(threads, files)
              [] strategy_name = "sliced"  -> distribution_sliced(threads, files)
              [] strategy_name = "bytes"   -> distribution_bytes(threads, files)
              [] strategy_name = "runtime" -> distribution_runtime(threads, files)
              [] strategy_name = "folder_runtime"
                                           -> distribution_folder_runtime(threads, files)
    IN  { wrapper(threads, files, r) : r \in results }

(***************************************************************************)
(* StopWatch: the sets of event names that have a start and an end time.   *)
(***************************************************************************)
NewStopWatch == [ start_times |-> {}, end_times |-> {} ]

\* A start that keeps the end time of the event.
StopWatch_start_keeps_end(watch, name) ==
    [ start_times |-> watch.start_times \cup { name },
      end_times   |-> watch.end_times ]

StopWatch_start(watch, name) ==
    [ start_times |-> watch.start_times \cup { name },
      end_times   |-> watch.end_times \ { name } ]

\* stop throws (ok = FALSE) when the event has no start time.
StopWatch_stop(watch, name) ==
    IF name \notin watch.start_times
    THEN [ ok |-> FALSE, watch |-> watch ]
    ELSE [ ok |-> TRUE,
           watch |-> [ watch EXCEPT !.end_times = @ \cup { name } ] ]

event_complete(watch, name) ==
    name \in watch.start_times /\ name \in watch.end_times

(***************************************************************************)
(* The file system: the set of directories, the directory entries of the   *)
(* regular files (path -> inode) and the inodes (data, mtime).  A path is  *)
(* the sequence of the components of the string given to the OS.  A byte   *)
(* of data is <<index of the entry it was read from, its offset>>.         *)
(***************************************************************************)
NoFile == << >>

Hole == << -1, 0 >>

EntryBytes(idx, from, n) == [ k \in 1..n |-> << idx, from + k >> ]

OSPath(str) == FilePath(str)

IsDir(fsys, path) == path = <<>> \/ path \in fsys.dirs

IsFile(fsys, path) == path \in DOMAIN fsys.names

\* fopen( path, "wb" ) can succeed: the parent is a directory and the path
\* is not one.
CanOpenForWrite(fsys, path) ==
    /\ path # <<>>
    /\ IsDir(fsys, dirname(path))
    /\ ~IsDir(fsys, path)

\* The file system after fopen( path, "wb" ) by a handle that names a new
\* inode ino: an existing file is truncated, a missing one is created.
OpenForWrite(fsys, path, ino) ==
    IF IsFile(fsys, path)
    THEN [ fsys EXCEPT !.inodes[fsys.names[path]] =
                           [ data |-> <<>>, mtime |-> CurrentTime ] ]
    ELSE [ fsys EXCEPT
             !.names  = [ q \in DOMAIN fsys.names \cup { path } |->
                            IF q = path THEN ino ELSE fsys.names[q] ],
             !.inodes = [ j \in DOMAIN fsys.inodes \cup { ino } |->
                            IF j = ino THEN [ data |-> <<>>, mtime |-> CurrentTime ]
                                       ELSE fsys.inodes[j] ] ]

OpenedInode(fsys, path, ino) ==
    IF IsFile(fsys, path) THEN fsys.names[path] ELSE ino

WriteAt(data, off, bytes) ==
    [ k \in 1..Max(Len(data), off + Len(bytes)) |->
        IF k > off /\ k <= off + Len(bytes) THEN bytes[k - off]
        ELSE IF k <= Len(data) THEN data[k] ELSE Hole ]

\* fwrite through an open handle on inode ino at offset off.
WriteFile(fsys, ino, off, bytes) ==
    [ fsys EXCEPT !.inodes[ino] =
        [ data |-> WriteAt(@.data, off, bytes), mtime |-> CurrentTime ] ]

\* rename( from, to ) with replacement can succeed.
CanRename(fsys, from, to) ==
    /\ IsFile(fsys, from)
    /\ to # <<>>
    /\ IsDir(fsys, dirname(to))
    /\ ~IsDir(fsys, to)

Rename(fsys, from, to) ==
    [ fsys EXCEPT !.names =
        [ q \in (DOMAIN fsys.names \ { from }) \cup { to } |->
            IF q = to THEN fsys.names[from] ELSE fsys.names[q] ] ]

\* utime( path ) can succeed; on a regular file it sets the inode's mtime.
CanSetTime(fsys, path) == IsFile(fsys, path) \/ IsDir(fsys, path)

SetTime(fsys, path, time) ==
    IF IsFile(fsys, path)
    THEN [ fsys EXCEPT !.inodes[fsys.names[path]].mtime = time ]
    ELSE fsys

\* What a reader of the file system sees: path -> (data, mtime).
Visible(fsys) == [ q \in DOMAIN fsys.names |-> fsys.inodes[fsys.names[q]] ]

(***************************************************************************)
(* mkdir_p with the cache of mkdirs_p.  The state threaded through is      *)
(* [ok, dirs, cache, calls]; ok = FALSE after the first throw; calls is    *)
(* the sequence of the calls of stat and create_folder made so far.        *)
(***************************************************************************)
\* A mkdir_p that does not consult the cache.
RECURSIVE mkdir_p_no_cache(_, _, _)
mkdir_p_no_cache(fsys, st, path) ==
    IF ~st.ok \/ path = <<>> THEN st
    ELSE LET up == mkdir_p_no_cache(fsys, st, dirname(path))
         IN  IF ~up.ok THEN up
             ELSE LET cached == [ up EXCEPT !.cache = @ \cup { path },
                                            !.calls = Append(@, << "stat", path >>) ]
                  IN  IF path \in cached.dirs THEN cached
                      ELSE IF IsFile(fsys, path)
                           THEN [ cached EXCEPT !.ok = FALSE ]
                           ELSE [ cached EXCEPT
                                    !.dirs = @ \cup { path },
                                    !.calls = Append(@, << "create_folder", path >>) ]

\* A mkdir_p that takes whatever exists at the path for a folder.
RECURSIVE mkdir_p_any_kind(_, _, _)
mkdir_p_any_kind(fsys, st, path) ==
    IF ~st.ok \/ path = <<>> \/ path \in st.cache THEN st
    ELSE LET up == mkdir_p_any_kind(fsys, st, dirname(path))
         IN  IF ~up.ok THEN up
             ELSE LET cached == [ up EXCEPT !.cache = @ \cup { path },
                                            !.calls = Append(@, << "stat", path >>) ]
                  IN  IF path \in cached.dirs \/ IsFile(fsys, path) THEN cached
                      ELSE [ cached EXCEPT
                               !.dirs = @ \cup { path },
                               !.calls = Append(@, << "create_folder", path >>) ]

RECURSIVE mkdir_p(_, _, _)
mkdir_p(fsys, st, path) ==
    IF ~st.ok \/ path = <<>> \/ path \in st.cache THEN st
    ELSE LET up == mkdir_p(fsys, st, dirname(path))
         IN  IF ~up.ok THEN up
             ELSE LET cached == [ up EXCEPT !.cache = @ \cup { path },
                                            !.calls = Append(@, << "stat", path >>) ]
                  IN  IF path \in cached.dirs THEN cached
                      ELSE IF IsFile(fsys, path)
                           THEN [ cached EXCEPT !.ok = FALSE ]
                           ELSE [ cached EXCEPT
                                    !.dirs = @ \cup { path },
                                    !.calls = Append(@, << "create_folder", path >>) ]

RECURSIVE mkdirs_loop(_, _, _)
mkdirs_loop(fsys, st, paths) ==
    IF paths = <<>> THEN st
    ELSE mkdirs_loop(fsys, mkdir_p(fsys, st, Head(paths)), Tail(paths))

mkdirs_p(fsys, paths) ==
    mkdirs_loop(fsys, [ ok |-> TRUE, dirs |-> fsys.dirs, cache |-> {},
                        calls |-> << >> ], paths)

(***************************************************************************)
(* The inputs the runs are drawn from.                                     *)
(***************************************************************************)
\* The time the "fixed" timestamp policy sets (the -t <sec> option).
FixedTime == 4

TSXFormers == { "identity", "current", "fixed" }

\* ts_xform( t ): the identity, always 0, or a fixed time.
\* A policy that never asks for a timestamp.
ApplyTSXForm_never(xform, t) == 0

ApplyTSXForm(xform, t) ==
    CASE xform = "identity" -> t
      [] xform = "current"  -> 0
      [] xform = "fixed"    -> FixedTime

\* The names the usage text lists for the option -d.
UsageStrategies == { "cyclic", "sliced", "bytes", "folder_bytes", "folder_files" }

StrategyNames == Registered \cup UsageStrategies

\* The strategies the whole engine is run with; SpecDist runs them all.
EngineStrategies == { "cyclic", "folder_files" }

ArchPlain ==
    << Entry(0, <<"d","/">>, 0, 3),
       Entry(1, <<"a","/","x">>, 2, 3),
       Entry(2, <<"b">>, 1, 0) >>

ArchShortExt ==
    << Entry(0, <<"p",".","a","d","d">>, 1, 2),
       Entry(1, <<"p",".","h","t","m","l">>, 2, 2) >>

ArchFolders == << Entry(0, <<"d","/">>, 0, 3) >>

ArchNoMtime ==
    << [ Entry(0, <<"b">>, 1, 3) EXCEPT !.valid = AllFields \ { "mtime" } ] >>

ArchRooted == << Entry(0, <<"d","/">>, 0, 3), Entry(1, <<"/","r">>, 1, 3) >>

ArchDrive == << Entry(0, <<"d","/">>, 0, 3), Entry(1, <<"c",":","r">>, 1, 3) >>

ArchBackslash == << Entry(0, <<"d","/">>, 0, 3), Entry(1, <<"d","\\","r">>, 1, 3) >>

Archives ==
    { ArchPlain, ArchShortExt, ArchFolders, ArchNoMtime,
      ArchRooted, ArchDrive, ArchBackslash }

\* The entries the archives of the distribution runs are built from.
EntryPool ==
    { << <<"a","/">>, 0 >>, << <<"a","/","x">>, 2 >>, << <<"a","/","y">>, 1 >>,
      << <<"b">>, 1 >> }

\* Every archive of at most MaxEntries pool entries; the index of an entry
\* is its position in the archive.
PoolArchives ==
    UNION { { [ i \in 1..n |-> Entry(i - 1, f[i][1], f[i][2], 3) ]
              : f \in [ 1..n -> EntryPool ] } : n \in 0..MaxEntries }

\* An archive of the files a/1, a/2, b/1, b/2, c/1 with the indices 0 to 4
\* and the sizes 100, 90, 50, 40, 20.
ArchThreeFolders ==
    << Entry(0, <<"a","/","1">>, 100, 3), Entry(1, <<"a","/","2">>, 90, 3),
       Entry(2, <<"b","/","1">>, 50, 3), Entry(3, <<"b","/","2">>, 40, 3),
       Entry(4, <<"c","/","1">>, 20, 3) >>

EmptyFS == [ dirs |-> {}, names |-> << >>, inodes |-> << >> ]

OldData == << << -2, 1 >> >>

\* A regular file named "a" is in the way of the folder "a".
FileInTheWayFS ==
    [ dirs   |-> {},
      names  |-> ( << <<"a">> >> :> << 0, 1 >> ),
      inodes |-> ( << 0, 1 >> :> [ data |-> OldData, mtime |-> 1 ] ) ]

\* The folder "a" and an older file "b" exist already.
OldTreeFS ==
    [ dirs   |-> { << <<"a">> >> },
      names  |-> ( << <<"b">> >> :> << 0, 1 >> ),
      inodes |-> ( << 0, 1 >> :> [ data |-> OldData, mtime |-> 1 ] ) ]

InitialFileSystems == { EmptyFS, FileInTheWayFS, OldTreeFS }

(***************************************************************************)
(* State.                                                                  *)
(***************************************************************************)
VARIABLES
    archive,      \* the entries of the zip file, in archive order
    jobs,         \* p_unzip arguments
    strategy,
    chunk_size,
    ts_xform,
    short_exts,
    fs0,          \* the file system when p_unzip is called
    fs,           \* the file system
    epc,          \* where the engine thread is in p_unzip
    error,        \* why p_unzip threw ("" while it has not)
    stats,        \* the partitioned copy of the ZipStats
    nfolders,     \* folders_end - stats.begin()
    thread_idxs,  \* the index lists of the workers
    nspawned,     \* threads spawned so far
    njoined,      \* threads joined so far
    res,          \* the UnzipSummary
    wpc,          \* where each worker is in unzip_worker
    outputs,      \* the thread_output of each worker
    wk,           \* the locals of each worker
    ts_calls,     \* history: the set_timestamp calls that succeeded
    opened,       \* history: the fopen( path, "wb" ) calls that succeeded
    sw,           \* a StopWatch and the calls made on it
    mk,           \* a call of mkdirs_p, and a second one on the same paths
    lg,           \* the workers as writers of cerr, and the log mutex
    hd            \* the handles of the resources, and the runs of destroyer

argvars == << archive, jobs, strategy, chunk_size, ts_xform, short_exts, fs0 >>

engvars == << epc, error, stats, nfolders, thread_idxs, nspawned, njoined, res >>

workvars == << wpc, outputs, wk >>

\* The objects of the utility classes that are followed on their own.
objvars == << sw, mk, lg, hd >>

vars == << argvars, fs, engvars, workvars, ts_calls, opened, objvars >>

Workers == 1..(MaxJobs)

files_range == SubSeq(stats, nfolders + 1, Len(stats))

folders_range == SubSeq(stats, 1, nfolders)

\* thread_output(): ret defaults to false.
NewThreadOutput ==
    [ watch |-> NewStopWatch, files |-> 0, bytes |-> 0, tmp_files |-> 0,
      ret |-> FALSE ]

\* The locals of a worker between two entries.
IdleLocals(pos) ==
    [ pos |-> pos, name |-> <<>>, tmp_name |-> <<>>, fsize |-> 0, total |-> 0,
      out |-> NoFile, zf |-> FALSE, err |-> "" ]

UnzipSummary(njobs) ==
    [ jobs_used |-> njobs, strategy_used |-> "", chunk_size_used |-> 0,
      files |-> 0, bytes |-> 0, folders |-> 0, num_temp_names |-> 0,
      files_ts |-> [ t \in 1..njobs |-> 0 ], bytes_ts |-> [ t \in 1..njobs |-> 0 ] ]

InitWith(archives, jobcounts, strategies, chunks, xforms, shorts, filesystems) ==
    /\ archive \in archives
    /\ jobs \in jobcounts
    /\ strategy \in strategies
    /\ chunk_size \in chunks
    /\ ts_xform \in xforms
    /\ short_exts \in shorts
    /\ fs0 \in filesystems
    /\ fs = fs0
    /\ epc = "load_zip"
    /\ error = ""
    /\ stats = <<>>
    /\ nfolders = 0
    /\ thread_idxs = <<>>
    /\ nspawned = 0
    /\ njoined = 0
    /\ res = UnzipSummary(jobs)
    /\ wpc = [ w \in Workers |-> "unborn" ]
    /\ outputs = [ w \in Workers |-> NewThreadOutput ]
    /\ wk = [ w \in Workers |-> IdleLocals(1) ]
    /\ ts_calls = {}
    /\ opened = {}

\* A StopWatch as its constructor leaves it, before any call.
NewWatchUnderTest ==
    [ watch |-> NewStopWatch, calls |-> << >>,
      last |-> [ op |-> "", name |-> "", ok |-> TRUE, before |-> NewStopWatch ] ]

\* No call of mkdirs_p on its own.
NoMkdirs ==
    [ pc |-> "idle", fsys0 |-> EmptyFS, fsys |-> EmptyFS, paths |-> << >>,
      first  |-> [ ok |-> TRUE, calls |-> << >> ],
      second |-> [ ok |-> TRUE, calls |-> << >> ] ]

\* No worker writes to cerr.
NoLog ==
    [ quiet |-> TRUE, mtx |-> 0, pc |-> [ w \in Workers |-> "end" ],
      todo |-> [ w \in Workers |-> 0 ], midline |-> {} ]

\* The resources a Handle subclass acquires: the memory of a Buffer, the
\* FILE of a File, the zip_t of a Zip.
Children == { "Buffer", "File", "Zip" }

Handles == 1..MaxHandles

\* Handle(): p( NULL ), own( false ).
NewHandle == [ p |-> "NULL", own |-> FALSE ]

\* No handle has been made.
NoHandles ==
    [ life |-> [ h \in Handles |-> "unborn" ],
      obj  |-> [ h \in Handles |-> NewHandle ],
      acquired |-> {},
      ran  |-> [ c \in Children |-> 0 ] ]

\* The objects followed on their own are untouched by the engine.
ObjIdle ==
    sw = NewWatchUnderTest /\ mk = NoMkdirs /\ lg = NoLog /\ hd = NoHandles

\* The engine before a call of p_unzip, for the specifications of the
\* utility classes.
EngineIdle ==
    InitWith({ << >> }, { 1 }, { "cyclic" }, { 1 }, { "identity" }, { FALSE },
             { EmptyFS })

Init ==
    /\ InitWith(Archives, 1..MaxJobs, EngineStrategies, 0..2, TSXFormers, BOOLEAN,
                InitialFileSystems)
    /\ ObjIdle

InitDist ==
    /\ InitWith(PoolArchives \cup { ArchThreeFolders }, 1..MaxJobs, StrategyNames,
                { 1 }, { "identity" }, { FALSE }, { EmptyFS })
    /\ ObjIdle

(***************************************************************************)
(* The engine thread: p_unzip.                                             *)
(***************************************************************************)
Throw(why) ==
    /\ epc' = "failed"
    /\ error' = why

folder_before_file(l, r) == is_folder(l) /\ ~is_folder(r)

\* A split that leaves the entries where they are.
partition_in_place(entries) == { entries }

\* A split whose predicate is negated: the files first.
partition_files_first(entries) ==
    SortOutcomes(entries,
        { pr \in PairsOf(entries) : folder_before_file(pr[2], pr[1]) })

\* std::partition: the folders first, in an order the standard leaves open.
partition(entries) ==
    SortOutcomes(entries,
        { pr \in PairsOf(entries) : folder_before_file(pr[1], pr[2]) })

CountFolders(entries) == Cardinality({ i \in DOMAIN entries : is_folder(entries[i]) })

\* Read the zip file into the buffer, open it, copy and partition the stats.
LoadZip ==
    /\ epc = "load_zip"
    /\ \/ /\ Throw("load_zip")
          /\ UNCHANGED << stats, nfolders >>
       \/ /\ \E i \in DOMAIN archive : "name" \notin archive[i].valid
          /\ Throw("stat")
          /\ UNCHANGED << stats, nfolders >>
       \/ /\ \A i \in DOMAIN archive : "name" \in archive[i].valid
          /\ stats' \in partition(archive)
          /\ nfolders' = CountFolders(archive)
          /\ epc' = "chunk_size"
          /\ UNCHANGED error
    /\ UNCHANGED << argvars, fs, thread_idxs, nspawned, njoined, res, workvars, ts_calls, opened, objvars >>

\* FAIL( chunk_size < 1 ); res.chunk_size_used = chunk_size.
CheckChunkSize ==
    /\ epc = "chunk_size"
    /\ IF chunk_size < 1
       THEN /\ Throw("chunk_size")
            /\ UNCHANGED res
       ELSE /\ res' = [ res EXCEPT !.chunk_size_used = chunk_size ]
            /\ epc' = "folders"
            /\ UNCHANGED error
    /\ UNCHANGED << argvars, fs, stats, nfolders, thread_idxs, nspawned, njoined,
                    workvars, ts_calls, opened, objvars >>

\* The folders of the folder entries alone.
FolderPaths_of_folder_entries(entries) ==
    [ i \in DOMAIN entries |->
        IF is_folder(entries[i]) THEN folder(entries[i]) ELSE <<>> ]

\* The folder of every entry, gathered before any of them is created.
FolderPaths(entries) == [ i \in DOMAIN entries |-> folder(entries[i]) ]

\* Gather the folders of all entries, then mkdirs_p: either it runs over
\* the whole list (and throws on a path that is not a folder), or a
\* create_folder or stat fails after the first n paths.
PreCreateFolders ==
    /\ epc = "folders"
    /\ IF \E i \in DOMAIN stats : folder_fails(stats[i])
       THEN /\ Throw("path")
            /\ UNCHANGED fs
       ELSE LET fps == FolderPaths(stats)
            IN  \/ LET done == mkdirs_p(fs, fps)
                   IN  /\ fs' = [ fs EXCEPT !.dirs = done.dirs ]
                       /\ IF done.ok
                          THEN epc' = "distribute" /\ UNCHANGED error
                          ELSE Throw("not_a_folder")
                \/ \E n \in 0..(Len(fps) - 1) :
                       LET done == mkdirs_p(fs, SubSeq(fps, 1, n))
                       IN  /\ done.ok
                           /\ fs' = [ fs EXCEPT !.dirs = done.dirs ]
                           /\ Throw("create_folder")
    /\ UNCHANGED << argvars, stats, nfolders, thread_idxs, nspawned, njoined, res,
                    workvars, ts_calls, opened, objvars >>

\* A lookup that falls back to the default strategy on an unknown name.
Distribute_default_cyclic ==
    /\ epc = "distribute"
    /\ LET used == IF has_key_distribute(strategy) THEN strategy ELSE "cyclic"
       IN  \E result \in distribute(used, jobs, files_range) :
               IF ~result.ok
               THEN /\ Throw("distribute")
                    /\ UNCHANGED << thread_idxs, res >>
               ELSE /\ thread_idxs' = result.lists
                    /\ res' = [ res EXCEPT !.strategy_used = used ]
                    /\ epc' = "spawn"
                    /\ UNCHANGED error
    /\ UNCHANGED << argvars, fs, stats, nfolders, nspawned, njoined, workvars, ts_calls, opened, objvars >>

\* Look the strategy up, run it through the wrapper, check the length.
Distribute ==
    /\ epc = "distribute"
    /\ IF ~has_key_distribute(strategy)
       THEN /\ Throw("strategy")
            /\ UNCHANGED << thread_idxs, res >>
       ELSE \E result \in distribute(strategy, jobs, files_range) :
                IF ~result.ok
                THEN /\ Throw("distribute")
                     /\ UNCHANGED << thread_idxs, res >>
                ELSE IF Len(result.lists) # jobs
                THEN /\ Throw("thread_idxs_size")
                     /\ thread_idxs' = result.lists
                     /\ UNCHANGED res
                ELSE /\ thread_idxs' = result.lists
                     /\ res' = [ res EXCEPT !.strategy_used = strategy ]
                     /\ epc' = IF jobs = 0 THEN "check" ELSE "spawn"
                     /\ UNCHANGED error
    /\ UNCHANGED << argvars, fs, stats, nfolders, nspawned, njoined, workvars, ts_calls, opened, objvars >>

\* A spawn loop that builds the output records anew at every spawn.
SpawnThread_fresh_outputs ==
    /\ epc = "spawn"
    /\ nspawned < jobs
    /\ nspawned' = nspawned + 1
    /\ wpc' = [ wpc EXCEPT ![nspawned + 1] = "start" ]
    /\ outputs' = [ w \in Workers |-> NewThreadOutput ]
    /\ epc' = IF nspawned + 1 = jobs THEN "join" ELSE "spawn"
    /\ UNCHANGED << argvars, fs, error, stats, nfolders, thread_idxs, njoined, res,
                    wk, ts_calls, opened, objvars >>

\* threads[i] = thread( unzip_worker, ... ) for the next i.
SpawnThread ==
    /\ epc = "spawn"
    /\ nspawned < jobs
    /\ nspawned' = nspawned + 1
    /\ wpc' = [ wpc EXCEPT ![nspawned + 1] = "start" ]
    /\ epc' = IF nspawned + 1 = jobs THEN "join" ELSE "spawn"
    /\ UNCHANGED << argvars, fs, error, stats, nfolders, thread_idxs, njoined, res,
                    outputs, wk, ts_calls, opened, objvars >>

\* A join loop that gives up at the first worker that failed.
JoinThread_fail_fast ==
    /\ epc = "join"
    /\ njoined < jobs
    /\ wpc[njoined + 1] = "done"
    /\ njoined' = njoined + 1
    /\ IF ~outputs[njoined + 1].ret
       THEN Throw("worker_ret")
       ELSE /\ epc' = IF njoined + 1 = jobs THEN "check" ELSE "join"
            /\ UNCHANGED error
    /\ UNCHANGED << argvars, fs, stats, nfolders, thread_idxs, nspawned, res,
                    workvars, ts_calls, opened, objvars >>

\* t.join() for the next thread: returns once that worker has returned.
JoinThread ==
    /\ epc = "join"
    /\ njoined < jobs
    /\ wpc[njoined + 1] = "done"
    /\ njoined' = njoined + 1
    /\ epc' = IF njoined + 1 = jobs THEN "check" ELSE "join"
    /\ UNCHANGED << argvars, fs, error, stats, nfolders, thread_idxs, nspawned, res,
                    workvars, ts_calls, opened, objvars >>

SumOver(f, n) == SumSeq([ t \in 1..n |-> f[t] ])

\* The checks after the join: every ret, then the aggregate counters.
CheckAndAggregate ==
    /\ epc = "check"
    /\ LET files_sum == SumOver([ t \in 1..jobs |-> outputs[t].files ], jobs)
           bytes_sum == SumOver([ t \in 1..jobs |-> outputs[t].bytes ], jobs)
           tmp_sum   == SumOver([ t \in 1..jobs |-> outputs[t].tmp_files ], jobs)
           files     == files_range
           total_bytes_in_zip == SumSeq([ i \in DOMAIN files |-> files[i].size ])
           summed    == [ res EXCEPT
                            !.files = res.files + files_sum,
                            !.bytes = res.bytes + bytes_sum,
                            !.num_temp_names = res.num_temp_names + tmp_sum,
                            !.files_ts = [ t \in 1..jobs |-> outputs[t].files ],
                            !.bytes_ts = [ t \in 1..jobs |-> outputs[t].bytes ] ]
       IN  IF \E t \in 1..jobs : ~outputs[t].ret
           THEN Throw("worker_ret") /\ UNCHANGED res
           ELSE IF res.files # 0 \/ res.bytes # 0
           THEN Throw("summary_not_zero") /\ UNCHANGED res
           ELSE IF summed.files # Len(files)
           THEN Throw("files_count") /\ res' = summed
           ELSE IF \E i \in DOMAIN files : "size" \notin files[i].valid
           THEN Throw("stat") /\ res' = [ summed EXCEPT !.folders = nfolders ]
           ELSE IF total_bytes_in_zip # summed.bytes
           THEN Throw("bytes_count") /\ res' = [ summed EXCEPT !.folders = nfolders ]
           ELSE /\ res' = [ summed EXCEPT !.folders = nfolders ]
                /\ epc' = "done"
                /\ UNCHANGED error
    /\ UNCHANGED << argvars, fs, stats, nfolders, thread_idxs, nspawned, njoined,
                    workvars, ts_calls, opened, objvars >>

(***************************************************************************)
(* The worker threads: unzip_worker, with Zip::extract_to inlined.         *)
(***************************************************************************)
\* The end of unzip_worker, reached from the end of the TRY block or
\* through CATCH_ALL: data.watch.stop( "unzip" ) and the return.  The stop
\* is outside the TRY block, so a throw of it leaves the thread function.
\* data is the thread_output as the worker leaves it, why is "" or what
\* was caught, zf tells whether the entry reader is still open.
Leave(w, data, why, zf) ==
    LET stopped == StopWatch_stop(data.watch, "unzip")
    IN  /\ outputs' = [ outputs EXCEPT ![w] =
                          IF stopped.ok THEN [ data EXCEPT !.watch = stopped.watch ]
                                        ELSE data ]
        /\ wpc' = [ wpc EXCEPT ![w] = IF stopped.ok THEN "done" ELSE "escaped" ]
        /\ wk' = [ wk EXCEPT ![w] =
                     [ IdleLocals(@.pos) EXCEPT !.err = why, !.zf = zf ] ]

\* zip[idx]: the ZipStat of the worker's own Zip object.
ZipAt(idx) == archive[idx + 1]

\* A worker that opens its Zip and its Buffer before it starts the clock.
WorkerStart_clock_last(w) ==
    /\ wpc[w] = "start"
    /\ \/ /\ outputs' = [ outputs EXCEPT ![w].watch = StopWatch_start(@, "unzip") ]
          /\ wpc' = [ wpc EXCEPT ![w] = "loop" ]
          /\ UNCHANGED wk
       \/ Leave(w, outputs[w], "failed", FALSE)
    /\ UNCHANGED << argvars, fs, engvars, ts_calls, opened, objvars >>

\* data.watch.start( "unzip" ), Zip zip( zip_buffer ), Buffer( chunk_size ).
WorkerStart(w) ==
    /\ wpc[w] = "start"
    /\ LET started == [ outputs[w] EXCEPT !.watch = StopWatch_start(@, "unzip") ]
       IN  \/ /\ outputs' = [ outputs EXCEPT ![w] = started ]
              /\ wpc' = [ wpc EXCEPT ![w] = "loop" ]
              /\ UNCHANGED wk
           \/ Leave(w, started, "failed", FALSE)
    /\ UNCHANGED << argvars, fs, engvars, ts_calls, opened, objvars >>

\* Why fopen( tmp, "wb" ) fails on this file system.
OpenError(fsys, path) ==
    IF path = <<>> THEN "empty_name"
    ELSE IF ~IsDir(fsys, dirname(path)) THEN "no_parent_folder"
    ELSE IF IsDir(fsys, path) THEN "is_a_folder"
    ELSE "failed"

\* The head of the loop for the next entry: its name and size, the
\* temporary name, and the start of extract_to: open the destination file
\* and the entry reader.
WorkerOpen(w) ==
    /\ wpc[w] = "loop"
    /\ wk[w].pos <= Len(thread_idxs[w])
    /\ LET idx == thread_idxs[w][wk[w].pos]
       IN  IF idx >= Len(archive) \/ ~({ "name", "size" } \subseteq ZipAt(idx).valid)
           THEN /\ Leave(w, outputs[w], "failed", FALSE)
                /\ UNCHANGED << fs, opened >>
           ELSE LET name     == ZipAt(idx).name
                    tmp_name == get_tmp_name(short_exts, name)
                    path     == OSPath(tmp_name)
                    ino      == << w, wk[w].pos >>
                    counted  == [ outputs[w] EXCEPT !.tmp_files =
                                    @ + (IF tmp_name = name THEN 0 ELSE 1) ]
                    call     == << w, idx, path >>
                IN  \/ /\ Leave(w, counted, OpenError(fs, path), FALSE)
                       /\ UNCHANGED << fs, opened >>
                    \/ /\ CanOpenForWrite(fs, path)
                       /\ fs' = OpenForWrite(fs, path, ino)
                       /\ opened' = opened \cup { call }
                       /\ Leave(w, counted, "failed", FALSE)
                    \/ /\ CanOpenForWrite(fs, path)
                       /\ fs' = OpenForWrite(fs, path, ino)
                       /\ opened' = opened \cup { call }
                       /\ outputs' = [ outputs EXCEPT ![w] = counted ]
                       /\ wpc' = [ wpc EXCEPT ![w] = "read" ]
                       /\ wk' = [ wk EXCEPT ![w] =
                                    [ @ EXCEPT !.name = name, !.tmp_name = tmp_name,
                                               !.fsize = ZipAt(idx).size, !.total = 0,
                                               !.out = OpenedInode(fs, path, ino),
                                               !.zf = TRUE ] ]
    /\ UNCHANGED << argvars, engvars, ts_calls, objvars >>

\* A loop of extract_to that goes on when zip_fread returns no bytes.
WorkerRead_spin(w) ==
    /\ wpc[w] = "read"
    /\ LET idx == thread_idxs[w][wk[w].pos]
           me  == wk[w]
       IN  \/ \E read \in 1..Min(chunk_size, me.fsize - me.total) :
                  \/ /\ fs' = WriteFile(fs, me.out, me.total,
                                        EntryBytes(idx, me.total, read))
                     /\ wk' = [ wk EXCEPT ![w].total = @ + read ]
                     /\ UNCHANGED << wpc, outputs >>
                  \/ /\ Leave(w, outputs[w], "failed", TRUE)
                     /\ UNCHANGED fs
           \/ UNCHANGED << fs, workvars >>
    /\ UNCHANGED << argvars, engvars, ts_calls, opened, objvars >>

\* One turn of the loop of extract_to: zip_fread, then either out.write and
\* the next turn, or the break, zip_fclose and the check of the total.
\* A throw of out.write leaves extract_to with the entry reader open.
WorkerRead(w) ==
    /\ wpc[w] = "read"
    /\ LET idx == thread_idxs[w][wk[w].pos]
           me  == wk[w]
       IN  \/ \E read \in 1..Min(chunk_size, me.fsize - me.total) :
                  \/ /\ fs' = WriteFile(fs, me.out, me.total,
                                        EntryBytes(idx, me.total, read))
                     /\ wk' = [ wk EXCEPT ![w].total = @ + read ]
                     /\ UNCHANGED << wpc, outputs >>
                  \/ /\ Leave(w, outputs[w], "failed", TRUE)
                     /\ UNCHANGED fs
           \/ /\ IF me.total # me.fsize
                 THEN Leave(w, outputs[w], "failed", FALSE)
                 ELSE /\ wpc' = [ wpc EXCEPT ![w] = "rename" ]
                      /\ wk' = [ wk EXCEPT ![w].out = NoFile, ![w].zf = FALSE ]
                      /\ UNCHANGED outputs
              /\ UNCHANGED fs
    /\ UNCHANGED << argvars, engvars, ts_calls, opened, objvars >>

\* A worker that leaves the file under its temporary name.
WorkerRename_skip(w) ==
    /\ wpc[w] = "rename"
    /\ wpc' = [ wpc EXCEPT ![w] = "timestamp" ]
    /\ UNCHANGED << fs, wk, outputs >>
    /\ UNCHANGED << argvars, engvars, ts_calls, opened, objvars >>

\* rename_file( tmp_name, name ): nothing when the names are equal.
WorkerRename(w) ==
    /\ wpc[w] = "rename"
    /\ LET me == wk[w]
       IN  IF me.tmp_name = me.name
           THEN /\ wpc' = [ wpc EXCEPT ![w] = "timestamp" ]
                /\ UNCHANGED << fs, wk, outputs >>
           ELSE \/ /\ CanRename(fs, OSPath(me.tmp_name), OSPath(me.name))
                   /\ fs' = Rename(fs, OSPath(me.tmp_name), OSPath(me.name))
                   /\ wpc' = [ wpc EXCEPT ![w] = "timestamp" ]
                   /\ UNCHANGED << wk, outputs >>
                \/ /\ Leave(w, outputs[w], "failed", FALSE)
                   /\ UNCHANGED fs
    /\ UNCHANGED << argvars, engvars, ts_calls, opened, objvars >>

\* Counters that miss the bytes.
Counted_files_only(data, size) == [ data EXCEPT !.files = @ + 1 ]

\* data.files++; data.bytes += size;
Counted(data, size) == [ data EXCEPT !.files = @ + 1, !.bytes = @ + size ]

\* A worker that counts the entry before it sets the timestamp.
WorkerTimestamp_count_first(w) ==
    /\ wpc[w] = "timestamp"
    /\ LET idx  == thread_idxs[w][wk[w].pos]
           me   == wk[w]
           time == ApplyTSXForm(ts_xform, ZipAt(idx).mtime)
           next == /\ outputs' = [ outputs EXCEPT ![w] = Counted(@, me.fsize) ]
                   /\ wk' = [ wk EXCEPT ![w] = IdleLocals(me.pos + 1) ]
                   /\ wpc' = [ wpc EXCEPT ![w] = "loop" ]
       IN  IF "mtime" \notin ZipAt(idx).valid
           THEN /\ Leave(w, outputs[w], "failed", FALSE)
                /\ UNCHANGED << fs, ts_calls, opened >>
           ELSE IF time = 0
           THEN /\ next
                /\ UNCHANGED << fs, ts_calls, opened >>
           ELSE \/ /\ CanSetTime(fs, OSPath(me.name))
                   /\ fs' = SetTime(fs, OSPath(me.name), time)
                   /\ ts_calls' = ts_calls \cup { << idx, me.name, time >> }
                   /\ UNCHANGED opened
                   /\ next
                \/ /\ Leave(w, Counted(outputs[w], me.fsize), "failed", FALSE)
                   /\ UNCHANGED << fs, ts_calls, opened >>
    /\ UNCHANGED << argvars, engvars, objvars >>

\* time = ts_xform( zip[idx].mtime() ); if( time ) set_timestamp( name, time );
\* then data.files++, data.bytes += size and on to the next entry.
WorkerTimestamp(w) ==
    /\ wpc[w] = "timestamp"
    /\ LET idx  == thread_idxs[w][wk[w].pos]
           me   == wk[w]
           time == ApplyTSXForm(ts_xform, ZipAt(idx).mtime)
           next == /\ outputs' = [ outputs EXCEPT ![w] = Counted(@, me.fsize) ]
                   /\ wk' = [ wk EXCEPT ![w] = IdleLocals(me.pos + 1) ]
                   /\ wpc' = [ wpc EXCEPT ![w] = "loop" ]
       IN  IF "mtime" \notin ZipAt(idx).valid
           THEN /\ Leave(w, outputs[w], "failed", FALSE)
                /\ UNCHANGED << fs, ts_calls, opened >>
           ELSE IF time = 0
           THEN /\ next
                /\ UNCHANGED << fs, ts_calls, opened >>
           ELSE \/ /\ CanSetTime(fs, OSPath(me.name))
                   /\ fs' = SetTime(fs, OSPath(me.name), time)
                   /\ ts_calls' = ts_calls \cup { << idx, me.name, time >> }
                   /\ UNCHANGED opened
                   /\ next
                \/ /\ Leave(w, outputs[w], "failed", FALSE)
                   /\ UNCHANGED << fs, ts_calls, opened >>
    /\ UNCHANGED << argvars, engvars, objvars >>

\* The loop is over: data.ret = true, and the worker returns.
WorkerSucceed(w) ==
    /\ wpc[w] = "loop"
    /\ wk[w].pos > Len(thread_idxs[w])
    /\ Leave(w, [ outputs[w] EXCEPT !.ret = TRUE ], "", FALSE)
    /\ UNCHANGED << argvars, fs, engvars, ts_calls, opened, objvars >>

WorkerStep(w) ==
    \/ WorkerStart(w)
    \/ WorkerOpen(w)
    \/ WorkerRead(w)
    \/ WorkerRename(w)
    \/ WorkerTimestamp(w)
    \/ WorkerSucceed(w)

EngineStep ==
    \/ LoadZip
    \/ CheckChunkSize
    \/ PreCreateFolders
    \/ Distribute
    \/ SpawnThread
    \/ JoinThread
    \/ CheckAndAggregate

Next == EngineStep \/ \E w \in Workers : WorkerStep(w)

Spec == Init /\ [][Next]_vars

\* The runs up to the distribution, over every archive of the pool.
NextDist == LoadZip \/ CheckChunkSize \/ PreCreateFolders \/ Distribute

SpecDist == InitDist /\ [][NextDist]_vars

\* The runs of p_unzip called with any number of jobs, zero included
\* (p_unzip takes a size_t and is declared in the header for any caller).
InitJobs ==
    /\ InitWith(Archives, 0..MaxJobs, EngineStrategies, { 1 }, { "identity" },
                { FALSE }, { EmptyFS })
    /\ ObjIdle

SpecJobs == InitJobs /\ [][Next]_vars

\* Three files of different sizes in two folders; the same with a folder
\* entry; and an archive that holds one name twice.
ArchThreeFiles ==
    << Entry(0, <<"a","/","x">>, 2, 3), Entry(1, <<"a","/","y">>, 1, 3),
       Entry(2, <<"b">>, 1, 3) >>

ArchTwoFolders ==
    << Entry(0, <<"a","/">>, 0, 3), Entry(1, <<"b">>, 2, 3),
       Entry(2, <<"a","/","x">>, 1, 3) >>

ArchSameName ==
    << Entry(0, <<"b">>, 1, 3), Entry(1, <<"b">>, 2, 3) >>

StrategyArchives == { ArchThreeFiles, ArchTwoFolders, ArchSameName }

\* The runs of p_unzip with each registered strategy, without short_exts.
InitStrategies ==
    /\ InitWith(StrategyArchives, 1..MaxJobs, Registered, { 1 }, { "identity" },
                { FALSE }, { EmptyFS })
    /\ ObjIdle

SpecStrategies == InitStrategies /\ [][Next]_vars

\* The same runs under a scheduler that lets the engine and every worker
\* thread take its next step in the end: every codec read and every call
\* of the file system returns.
SpecTerminates ==
    /\ InitStrategies /\ [][Next]_vars
    /\ WF_vars(EngineStep)
    /\ \A w \in Workers : WF_vars(WorkerStep(w))

\* Files whose names begin with a dot: .html, .a.txt (of mtime 0) and
\* d/.a.html.
ArchDotFiles ==
    << Entry(0, <<".","h","t","m","l">>, 1, 3),
       Entry(1, <<".","a",".","t","x","t">>, 1, 0),
       Entry(2, <<"d","/",".","a",".","h","t","m","l">>, 1, 3) >>

\* The runs of p_unzip on them, with and without short_exts.
InitDotFiles ==
    /\ InitWith({ ArchDotFiles }, 1..MaxJobs, { "cyclic" }, { 1 },
                { "identity", "current" }, BOOLEAN, { EmptyFS })
    /\ ObjIdle

SpecDotFiles == InitDotFiles /\ [][Next]_vars

(***************************************************************************)
(* A StopWatch under any sequence of calls of start, stop and              *)
(* milliseconds; sw.calls is the sequence of the calls made, sw.last the   *)
(* outcome of the last one and the watch before it.                        *)
(***************************************************************************)
EventNames == { "unzip", "total" }

enginevars == << argvars, fs, engvars, workvars, ts_calls, opened >>

watchvars == << enginevars, mk, lg, hd >>

Called(op, name, ok, watch) ==
    sw' = [ watch |-> watch,
            calls |-> Append(sw.calls, << op, name >>),
            last  |-> [ op |-> op, name |-> name, ok |-> ok, before |-> sw.watch ] ]

WatchStart(name) ==
    /\ Len(sw.calls) < MaxCalls
    /\ Called("start", name, TRUE, StopWatch_start(sw.watch, name))
    /\ UNCHANGED watchvars

WatchStop(name) ==
    /\ Len(sw.calls) < MaxCalls
    /\ LET stopped == StopWatch_stop(sw.watch, name)
       IN  Called("stop", name, stopped.ok, stopped.watch)
    /\ UNCHANGED watchvars

\* milliseconds( name ), seconds( name ), minutes( name ): FAIL_ unless the
\* event is complete.
WatchQuery(name) ==
    /\ Len(sw.calls) < MaxCalls
    /\ Called("milliseconds", name, event_complete(sw.watch, name), sw.watch)
    /\ UNCHANGED watchvars

InitWatch == EngineIdle /\ ObjIdle

NextWatch ==
    \E name \in EventNames : WatchStart(name) \/ WatchStop(name) \/ WatchQuery(name)

SpecWatch == InitWatch /\ [][NextWatch]_vars

(***************************************************************************)
(* mkdirs_p called on a list of paths, and called once more on the same    *)
(* list; mk.first and mk.second are what the two calls did.                *)
(***************************************************************************)
PathPool ==
    { << >>, << <<"a">> >>, << <<"a">>, <<"b">> >>,
      << <<"a">>, <<"b">>, <<"c">> >>, << <<"b">> >>, << <<"d">> >> }

PathLists == UNION { [ 1..n -> PathPool ] : n \in 0..MaxPaths }

InitMkdirs ==
    /\ EngineIdle
    /\ sw = NewWatchUnderTest
    /\ lg = NoLog
    /\ hd = NoHandles
    /\ \E f \in InitialFileSystems, ps \in PathLists :
          mk = [ NoMkdirs EXCEPT !.pc = "input", !.fsys0 = f, !.fsys = f,
                                 !.paths = ps ]

\* mkdirs_p( paths ): the folders made before a throw stay.
MkdirsCall ==
    /\ mk.pc = "input"
    /\ LET done == mkdirs_p(mk.fsys, mk.paths)
       IN  mk' = [ mk EXCEPT !.pc = "called",
                             !.fsys = [ @ EXCEPT !.dirs = done.dirs ],
                             !.first = [ ok |-> done.ok, calls |-> done.calls ] ]
    /\ UNCHANGED << enginevars, sw, lg, hd >>

MkdirsAgain ==
    /\ mk.pc = "called"
    /\ mk.first.ok
    /\ LET done == mkdirs_p(mk.fsys, mk.paths)
       IN  mk' = [ mk EXCEPT !.pc = "again",
                             !.fsys = [ @ EXCEPT !.dirs = done.dirs ],
                             !.second = [ ok |-> done.ok, calls |-> done.calls ] ]
    /\ UNCHANGED << enginevars, sw, lg, hd >>

NextMkdirs == MkdirsCall \/ MkdirsAgain

SpecMkdirs == InitMkdirs /\ [][NextMkdirs]_vars

(***************************************************************************)
(* The workers as writers of cerr.  Each worker goes through the entries   *)
(* of its list (lg.todo counts those left); for each it writes, unless     *)
(* quiet, the line of the name under log_name_mtx, one operator << after   *)
(* the other, and then extracts the entry; a throw anywhere in the body    *)
(* ends in CATCH_ALL, whose LOG writes the message and the end of line.    *)
(* lg.midline holds the workers that have written a part of a line and not *)
(* yet its end.                                                            *)
(***************************************************************************)
LogAt(w, to) == [ lg EXCEPT !.pc[w] = to ]

logframe == << enginevars, sw, mk, hd >>

\* for( auto idx : idxs ), name and size of the entry, if( !quiet ).
LogTop(w) ==
    /\ lg.pc[w] = "top"
    /\ lg' = LogAt(w, IF lg.todo[w] = 0 THEN "end"
                      ELSE IF lg.quiet THEN "extract" ELSE "lock")
    /\ UNCHANGED logframe

\* A lock that does not wait for the mutex to be free.
LogLock_no_wait(w) ==
    /\ lg.pc[w] = "lock"
    /\ lg' = [ LogAt(w, "prefix") EXCEPT !.mtx = w ]
    /\ UNCHANGED logframe

\* lock_guard<mutex> lock( log_name_mtx ).
LogLock(w) ==
    /\ lg.pc[w] = "lock"
    /\ lg.mtx = 0
    /\ lg' = [ LogAt(w, "prefix") EXCEPT !.mtx = w ]
    /\ UNCHANGED logframe

\* cerr << ... << to_string( thread_idx ) + "> " << name: the prefix, then
\* the name; building the prefix may throw, which unlocks the mutex.
LogWrite(w) ==
    /\ lg.pc[w] \in { "prefix", "name" }
    /\ \/ lg' = [ LogAt(w, IF lg.pc[w] = "prefix" THEN "name" ELSE "endl")
                     EXCEPT !.midline = @ \cup { w } ]
       \/ /\ lg.pc[w] = "prefix"
          /\ lg' = [ LogAt(w, "what") EXCEPT !.mtx = 0 ]
    /\ UNCHANGED logframe

\* << endl, and the end of the scope of the lock_guard.
LogEndl(w) ==
    /\ lg.pc[w] = "endl"
    /\ lg' = [ LogAt(w, "extract") EXCEPT !.midline = @ \ { w }, !.mtx = 0 ]
    /\ UNCHANGED logframe

\* The rest of the body of the loop: it throws or it comes to its end.
LogExtract(w) ==
    /\ lg.pc[w] = "extract"
    /\ \/ lg' = [ LogAt(w, "top") EXCEPT !.todo[w] = @ - 1 ]
       \/ lg' = LogAt(w, "what")
    /\ UNCHANGED logframe

\* CATCH_ALL: LOG( e.what() ) is cerr << out.str() << std::endl.
LogWhat(w) ==
    /\ lg.pc[w] \in { "what", "what_endl" }
    /\ lg' = IF lg.pc[w] = "what"
             THEN [ LogAt(w, "what_endl") EXCEPT !.midline = @ \cup { w } ]
             ELSE [ LogAt(w, "end") EXCEPT !.midline = @ \ { w } ]
    /\ UNCHANGED logframe

InitLog ==
    /\ EngineIdle
    /\ sw = NewWatchUnderTest
    /\ mk = NoMkdirs
    /\ hd = NoHandles
    /\ \E q \in BOOLEAN, n \in [ Workers -> 0..MaxEntries ] :
          lg = [ NoLog EXCEPT !.quiet = q, !.todo = n,
                              !.pc = [ w \in Workers |-> "top" ] ]

NextLog ==
    \E w \in Workers :
        \/ LogTop(w) \/ LogLock(w) \/ LogWrite(w) \/ LogEndl(w)
        \/ LogExtract(w) \/ LogWhat(w)

LogStep(w) ==
    \/ LogTop(w) \/ LogLock(w) \/ LogWrite(w) \/ LogEndl(w)
    \/ LogExtract(w) \/ LogWhat(w)

\* Every worker thread that can take a step is scheduled in the end.
SpecLog ==
    InitLog /\ [][NextLog]_vars /\ \A w \in Workers : WF_vars(LogStep(w))

(***************************************************************************)
(* Handle<PtrT, Child> and its subclasses Buffer, File and Zip.            *)
(***************************************************************************)
\* void release() { own = false; }
Handle_release(h) == [ h EXCEPT !.own = FALSE ]

\* A move constructor that leaves the ownership with the source as well.
Handle_move_keeps_owner(right) ==
    [ left |-> [ p |-> right.p, own |-> right.own ], right |-> right ]

\* Handle( Handle&& right ) : p( right.p ), own( right.own )
\* { right.release(); }
Handle_move(right) ==
    [ left |-> [ p |-> right.p, own |-> right.own ],
      right |-> Handle_release(right) ]

\* destroy(): nothing without ownership, else destroyer() and release().
Handle_destroy(h) ==
    IF ~h.own
    THEN [ handle |-> h, ran |-> FALSE ]
    ELSE [ handle |-> Handle_release(h), ran |-> TRUE ]

handleframe == << enginevars, sw, mk, lg >>

\* The runs of destroyer after a destroy() of handle h.
RanAfter(h, done) ==
    IF done.ran THEN [ hd.ran EXCEPT ![hd.obj[h].p] = @ + 1 ] ELSE hd.ran

\* The constructor of a subclass: Buffer( length ), File( s, mode ) or
\* Zip( zs ).  It acquires the resource and sets own, or throws before it
\* has the resource, or (Zip) throws after it has set own; a throw ends
\* the object by ~Handle().
HandleConstruct(h, c) ==
    /\ hd.life[h] = "unborn"
    /\ c \notin hd.acquired
    /\ \/ hd' = [ hd EXCEPT !.life[h] = "alive",
                            !.obj[h] = [ p |-> c, own |-> TRUE ],
                            !.acquired = @ \cup { c } ]
       \/ hd' = [ hd EXCEPT !.life[h] = "dead" ]
       \/ /\ c = "Zip"
          /\ hd' = [ hd EXCEPT !.life[h] = "dead",
                               !.obj[h] = [ p |-> c, own |-> FALSE ],
                               !.acquired = @ \cup { c },
                               !.ran[c] = @ + 1 ]
    /\ UNCHANGED handleframe

\* The move constructor of a subclass, from a handle that is alive.
HandleMove(h, from) ==
    /\ hd.life[h] = "unborn"
    /\ hd.life[from] = "alive"
    /\ LET moved == Handle_move(hd.obj[from])
       IN  hd' = [ hd EXCEPT !.life[h] = "alive",
                             !.obj[h] = moved.left,
                             !.obj[from] = moved.right ]
    /\ UNCHANGED handleframe

\* An explicit destroy().
HandleDestroy(h) ==
    /\ hd.life[h] = "alive"
    /\ LET done == Handle_destroy(hd.obj[h])
       IN  hd' = [ hd EXCEPT !.obj[h] = done.handle,
                             !.ran = RanAfter(h, done) ]
    /\ UNCHANGED handleframe

\* ~Handle() { destroy(); }
HandleDestruct(h) ==
    /\ hd.life[h] = "alive"
    /\ LET done == Handle_destroy(hd.obj[h])
       IN  hd' = [ hd EXCEPT !.life[h] = "dead",
                             !.obj[h] = done.handle,
                             !.ran = RanAfter(h, done) ]
    /\ UNCHANGED handleframe

InitHandles ==
    /\ EngineIdle
    /\ sw = NewWatchUnderTest /\ mk = NoMkdirs /\ lg = NoLog
    /\ hd = NoHandles

NextHandles ==
    \E h \in Handles :
        \/ \E c \in Children : HandleConstruct(h, c)
        \/ \E from \in Handles : HandleMove(h, from)
        \/ HandleDestroy(h)
        \/ HandleDestruct(h)

SpecHandles == InitHandles /\ [][NextHandles]_vars

(***************************************************************************)
(* Properties.                                                             *)
(***************************************************************************)
\* The indices of the entries of the archive that are not folders.
FileIndices ==
    { archive[i].index : i \in { j \in DOMAIN archive : ~is_folder(archive[j]) } }

ElementsOf(seq) == { seq[i] : i \in DOMAIN seq }

\* C1: for a registered strategy and a non-empty list of files, the wrapped
\* strategy returns, and the lists it returns hold the index of every file
\* entry exactly once and nothing else: no worker is handed a folder entry.
C1_Permutation ==
    (has_key_distribute(strategy) /\ files_range # <<>>) =>
        /\ error # "distribute"
        /\ epc = "spawn" =>
              LET all == Concat(thread_idxs)
              IN  /\ Len(all) = Cardinality(FileIndices)
                  /\ ElementsOf(all) = FileIndices
                  /\ \A i \in DOMAIN all : ~is_folder(archive[all[i] + 1])

\* A folder in the middle of the archive, two files, more than one list.
C1_Witness ==
    /\ epc = "spawn"
    /\ strategy = "folder_runtime"
    /\ jobs = 2
    /\ Len(archive) = 3
    /\ is_folder(archive[2])
    /\ Len(Concat(thread_idxs)) = 2

\* C2: a registered strategy returns exactly `jobs` lists for every list of
\* files, the empty one included, so that distribution never fails and the
\* check of the number of lists passes.
C2_AlwaysJLists ==
    has_key_distribute(strategy) =>
        /\ error \notin { "distribute", "thread_idxs_size" }
        /\ epc = "spawn" => Len(thread_idxs) = jobs

\* What mkdirs_p makes of the tree p_unzip was started on.
PreCreated == mkdirs_p(fs0, FolderPaths(stats))

\* C3: once a worker has been spawned, the pre-creation of the folder of
\* every entry (folder entries and parents of file entries) has completed
\* with success; the directories are the pre-created ones ever after, so no
\* worker creates one; and a worker that has opened its destination or
\* temporary file found the parent directory, none has missed it.
C3_FoldersBeforeWorkers ==
    nspawned > 0 =>
        /\ PreCreated.ok
        /\ fs.dirs = PreCreated.dirs
        /\ \A i \in DOMAIN archive : IsDir(fs, folder(archive[i]))
        /\ \A w \in Workers :
              /\ wk[w].err # "no_parent_folder"
              /\ wpc[w] = "read" => IsDir(fs, dirname(OSPath(wk[w].tmp_name)))

\* A worker writes into a folder that has no entry of its own in the
\* archive and did not exist before the run.
C3_Witness ==
    \E w \in Workers :
        /\ wpc[w] = "read"
        /\ dirname(OSPath(wk[w].tmp_name)) # <<>>
        /\ dirname(OSPath(wk[w].tmp_name)) \notin fs0.dirs
        /\ wk[w].total > 0

\* C4: p_unzip throws on a worker's ret == false only when all `jobs`
\* workers have returned and been joined, and it returns a summary only if
\* every ret is true; a worker that did not fail itself is never cut short:
\* when it is done it has processed its whole list.
C4_FailAfterJoin ==
    /\ error = "worker_ret" =>
          /\ njoined = jobs
          /\ \A w \in 1..jobs : wpc[w] = "done"
          /\ \E w \in 1..jobs : ~outputs[w].ret
    /\ epc = "done" => \A w \in 1..jobs : outputs[w].ret
    /\ (epc = "failed" /\ njoined = jobs /\ \E w \in 1..jobs : ~outputs[w].ret) =>
          error = "worker_ret"
    /\ \A w \in 1..jobs :
          (wpc[w] = "done" /\ wk[w].err = "") =>
              /\ outputs[w].ret
              /\ outputs[w].files = Len(thread_idxs[w])

\* The first worker failed, the second one extracted its whole list, and
\* p_unzip threw after the join.
C4_Witness ==
    /\ error = "worker_ret"
    /\ jobs = 2
    /\ ~outputs[1].ret
    /\ outputs[2].ret
    /\ Len(thread_idxs[2]) > 0
    /\ outputs[2].files = Len(thread_idxs[2])

\* C5: a worker never lets a failure out of its thread function; when it
\* has returned its "unzip" event is complete; a failure at any step leaves
\* ret false; and ret is true only when the worker went through its whole
\* list without a failure.
C5_WorkerCatchesAll ==
    \A w \in Workers :
        /\ wpc[w] # "escaped"
        /\ wpc[w] = "done" => event_complete(outputs[w].watch, "unzip")
        /\ wk[w].err # "" => (wpc[w] = "done" /\ ~outputs[w].ret)
        /\ outputs[w].ret =>
              /\ wpc[w] = "done"
              /\ wk[w].err = ""
              /\ wk[w].pos = Len(thread_idxs[w]) + 1
              /\ outputs[w].files = Len(thread_idxs[w])

\* One worker failed in its setup, the other one in a write to its
\* destination file; both returned with the event complete.
C5_Witness ==
    /\ jobs = 2
    /\ \A w \in 1..2 :
          /\ wpc[w] = "done"
          /\ wk[w].err # ""
          /\ event_complete(outputs[w].watch, "unzip")
    /\ wk[1].pos = 1 /\ ~wk[1].zf /\ outputs[1].tmp_files = 0
    /\ wk[2].zf

\* The positions of the file entries in the archive.
FilePositions == { i \in DOMAIN archive : ~is_folder(archive[i]) }

DistinctNames ==
    \A i, j \in DOMAIN archive : i # j => archive[i].name # archive[j].name

\* The files a run without short_exts leaves: the files that were there and
\* one file per file entry, holding the bytes of the entry.
PlainNames ==
    DOMAIN fs0.names \cup { OSPath(archive[i].name) : i \in FilePositions }

PlainData(q) ==
    IF \E i \in FilePositions : OSPath(archive[i].name) = q
    THEN LET i == CHOOSE i \in FilePositions : OSPath(archive[i].name) = q
         IN  EntryBytes(archive[i].index, 0, archive[i].size)
    ELSE fs0.inodes[fs0.names[q]].data

SameFilesAsPlain ==
    /\ DOMAIN fs.names = PlainNames
    /\ \A q \in PlainNames : Visible(fs)[q].data = PlainData(q)

\* C6: for an archive of pairwise distinct names, a successful run with
\* short_exts leaves the file names and contents that a run without
\* short_exts leaves, also when a temporary name coincides with the name or
\* the temporary name of another entry.
C6_ShortExtsSameFiles ==
    (epc = "done" /\ short_exts /\ DistinctNames) => SameFilesAsPlain

\* Some entry of the archive has a name the FilePath constructor rejects.
BadName ==
    \E i \in DOMAIN archive :
        \/ starts_with(archive[i].name, "/")
        \/ ":" \in Range(archive[i].name)
        \/ "\\" \in Range(archive[i].name)

\* C7: with an entry whose name starts with '/' or holds ':' or a
\* backslash, p_unzip never gets past the gathering of the folders: it
\* creates no directory, spawns no worker, writes no file, and once it has
\* gathered the folders it has failed.
C7_BadNameFailsEarly ==
    BadName =>
        /\ fs = fs0
        /\ nspawned = 0
        /\ \A w \in Workers : wpc[w] = "unborn"
        /\ epc \in { "load_zip", "chunk_size", "folders", "failed" }
        /\ epc = "failed" =>
              error \in { "load_zip", "chunk_size", "path" }

\* The name with the backslash comes after a folder entry that is fine,
\* and p_unzip has thrown on it.
C7_Witness ==
    /\ archive = ArchBackslash
    /\ error = "path"
    /\ fs0 = EmptyFS

\* The set_timestamp calls made for the entry at position i.
TimestampsOf(i) == { c \in ts_calls : c[1] = archive[i].index }

\* C8 as stated: with the identity as ts_xform, a successful run has set
\* the mtime of every extracted file to the archived mtime, whatever its
\* value, zero included.
C8_MtimeAlwaysSet ==
    (epc = "done" /\ ts_xform = "identity") =>
        \A i \in FilePositions :
            << archive[i].index, archive[i].name, archive[i].mtime >> \in ts_calls

\* C8, amended: with the identity as ts_xform, a successful run has called
\* set_timestamp on the final name of every file entry whose archived mtime
\* is not zero, with that mtime and with no other time, and has made no
\* call for an entry whose archived mtime is zero; without short_exts the
\* file of such an entry then shows the archived mtime, and the file of an
\* entry with mtime zero the time of its extraction.
C8_MtimeSetUnlessZero ==
    (epc = "done" /\ ts_xform = "identity") =>
        \A i \in FilePositions :
            /\ TimestampsOf(i) =
                  IF archive[i].mtime = 0 THEN {}
                  ELSE { << archive[i].index, archive[i].name, archive[i].mtime >> }
            /\ (~short_exts /\ DistinctNames) =>
                  Visible(fs)[OSPath(archive[i].name)].mtime =
                      IF archive[i].mtime = 0 THEN CurrentTime ELSE archive[i].mtime

\* A successful run with the identity over an archive that holds an entry
\* with mtime zero and one with another mtime, onto older files.
C8_Witness ==
    /\ epc = "done"
    /\ ts_xform = "identity"
    /\ fs0 = OldTreeFS
    /\ \E i, j \in FilePositions : archive[i].mtime = 0 /\ archive[j].mtime # 0
    /\ ts_calls # {}

\* The uncompressed size of all file entries.
TotalBytesInZip ==
    SumSeq([ i \in DOMAIN files_range |-> files_range[i].size ])

\* C9: when every worker has finished with ret true, the file counters add
\* up to the number of file entries and the byte counters to their total
\* size; p_unzip never fails in one of its two aggregate checks.
C9_CountersAddUp ==
    /\ error \notin { "files_count", "bytes_count" }
    /\ (nspawned = jobs /\ \A w \in 1..jobs : outputs[w].ret) =>
          /\ SumOver([ t \in 1..jobs |-> outputs[t].files ], jobs) = Len(files_range)
          /\ SumOver([ t \in 1..jobs |-> outputs[t].bytes ], jobs) = TotalBytesInZip

\* Two workers have succeeded, each with a file of its own, and the
\* engine has passed both checks.
C9_Witness ==
    /\ epc = "done"
    /\ jobs = 2
    /\ \A w \in 1..2 : outputs[w].ret /\ outputs[w].files = 1
    /\ res.bytes = 3

\* C10: called with chunk_size 0, p_unzip does not fail on that account.
C10_ZeroChunkAccepted ==
    chunk_size = 0 => error # "chunk_size"

\* C11: whenever a worker is outside extract_to -- it returned from it or
\* a failure left it -- the entry reader extract_to opened has been closed,
\* whatever made extract_to fail.
C11_ReaderAlwaysClosed ==
    \A w \in Workers : wpc[w] # "read" => ~wk[w].zf

\* C12: called with a strategy name that is not registered, p_unzip fails
\* at the lookup: no worker is ever spawned and no file is created or
\* written (the folders of the entries have been pre-created by then).
C12_UnknownStrategyFailsEarly ==
    ~has_key_distribute(strategy) =>
        /\ nspawned = 0
        /\ \A w \in Workers : wpc[w] = "unborn"
        /\ fs.names = fs0.names
        /\ fs.inodes = fs0.inodes
        /\ thread_idxs = <<>>
        /\ epc \in { "load_zip", "chunk_size", "folders", "distribute", "failed" }

\* The lookup of the unknown name has failed, for an archive with files,
\* after the pre-creation of its folders.
C12_Witness ==
    /\ error = "strategy"
    /\ files_range # <<>>
    /\ fs.dirs # fs0.dirs

\* The names offered to the user: those of the usage text, and runtime.
Offered == UsageStrategies \cup { "runtime" }

\* C13: every strategy name offered to the user -- cyclic, sliced, bytes,
\* runtime, folder_files, folder_bytes -- is registered, so that p_unzip
\* never fails at the lookup of one of them.
C13_OfferedNamesRegistered ==
    strategy \in Offered => error # "strategy"

\* The worker is between its spawn and its return.
Running(w) == wpc[w] \in { "start", "loop", "read", "rename", "timestamp" }

\* The engine is at, or has thrown from, the code that reads the outputs.
EngineReadsOutputs ==
    \/ epc \in { "check", "done" }
    \/ error \in { "worker_ret", "summary_not_zero", "files_count", "bytes_count" }

\* A step that changes the output record of worker w is a step of the
\* running worker w: the engine and the other workers stand still.
OnlyOwnerWrites ==
    \A w \in Workers :
        outputs'[w] # outputs[w] =>
            /\ Running(w)
            /\ UNCHANGED engvars
            /\ \A v \in Workers \ { w } :
                  /\ wpc'[v] = wpc[v]
                  /\ wk'[v] = wk[v]
                  /\ outputs'[v] = outputs[v]

\* C14: the engine comes to the code that reads the output records only
\* when all workers have returned and been joined, and until then the
\* record of a worker is changed by steps of that worker alone; a record
\* is never changed once its worker has returned.
C14_OutputsNotShared ==
    /\ [](EngineReadsOutputs =>
            /\ njoined = jobs
            /\ \A w \in 1..jobs : wpc[w] = "done")
    /\ [][OnlyOwnerWrites]_vars

\* Both workers are in the middle of an entry, each with its clock
\* started in its own record, and the engine waits in the first join.
C14_Witness ==
    /\ epc = "join"
    /\ njoined = 0
    /\ jobs = 2
    /\ wpc[1] = "read"
    /\ wpc[2] = "timestamp"
    /\ \A w \in 1..2 : outputs[w].watch # NewStopWatch

OpensOf(q) == { call \in opened : call[3] = q }

\* C16: without short_exts and for an archive of pairwise distinct names,
\* with every registered strategy, every number of jobs and every
\* interleaving, no destination path is opened for writing more than once
\* (so never by two workers), and after a successful run the path of every
\* file entry has been opened exactly once.
C16_EachPathOpenedOnce ==
    (~short_exts /\ DistinctNames) =>
        /\ \A a, b \in opened : a[3] = b[3] => a = b
        /\ epc = "done" =>
              \A i \in FilePositions :
                  Cardinality(OpensOf(OSPath(archive[i].name))) = 1

C16_Witness ==
    /\ epc = "done" /\ ~short_exts /\ DistinctNames /\ jobs = 2
    /\ strategy = "bytes"
    /\ Cardinality(FilePositions) = 3
    /\ \E a, b \in opened : a[1] # b[1]

\* C17 as stated: the files range lists the non-folder entries in the order
\* in which they appear in the archive.
C17_FilesInArchiveOrder ==
    \A i, j \in DOMAIN files_range :
        i < j => files_range[i].index < files_range[j].index

\* C17: once the stats are loaded and split, they are the entries of the
\* archive, each once; the folders range holds the folder entries and the
\* files range the non-folder entries, in an order the split leaves open.
C17_FoldersThenFiles ==
    epc \notin { "load_zip", "failed" } =>
        /\ Len(stats) = Len(archive)
        /\ Range(stats) = Range(archive)
        /\ \A i \in DOMAIN folders_range : is_folder(folders_range[i])
        /\ \A i \in DOMAIN files_range : ~is_folder(files_range[i])

C17_Witness ==
    /\ epc = "chunk_size"
    /\ Len(archive) = 3 /\ ~is_folder(archive[1]) /\ ~is_folder(archive[2])
    /\ is_folder(archive[3])
    /\ stats = << archive[3], archive[2], archive[1] >>

\* Five file entries with the indices 10 to 14, in this order.
FilesTenToFourteen ==
    [ k \in 1..5 |-> Entry(9 + k, <<"b">>, 1, 3) ]

\* What the cyclic strategy returns for them and three workers.
ListsOfTenToFourteen == distribution_cyclic(3, FilesTenToFourteen)

\* The distribution has been made: p_unzip holds the lists of the strategy.
Distributed == epc = "spawn" /\ Len(thread_idxs) = jobs

SlicedWorker(k, len, J) ==
    LET chunk      == Max(len \div J, 1)
        sliced_end == len - (len % J)
    IN  IF k < sliced_end THEN k \div chunk ELSE k % J

\* The orders of the files range that ascend by name.
SortedByName ==
    { sorted \in { [ i \in DOMAIN files_range |-> files_range[q[i]] ]
                     : q \in Perms(Len(files_range)) } :
        \A i, j \in DOMAIN sorted :
            i < j => ~StrLess(sorted[j].name, sorted[i].name) }

\* The lists are those of the rule applied to the order sorted.
SlicedFrom(sorted) ==
    LET len    == Len(sorted)
        at(t)  == { k \in 0..(len - 1) : SlicedWorker(k, len, jobs) = t - 1 }
    IN  \A t \in 1..jobs :
            /\ Len(thread_idxs[t]) = Cardinality(at(t))
            /\ \A k \in at(t) :
                  thread_idxs[t][Cardinality({ k2 \in at(t) : k2 <= k })]
                      = sorted[k + 1].index

\* C19: the sliced strategy sorts the files by name ascending and hands the
\* file at sorted position k to worker k / chunk when k < sliced_end and to
\* worker k mod J otherwise, each list in sorted order; the worker computed
\* is below J, so that FAIL_( where >= threads ) never fires on a list of
\* files; and for the names a/1, a/2, b/1, b/2, c/1 and two workers the
\* lists are [0,1,4] and [2,3].
C19_SlicedRule ==
    /\ (strategy = "sliced" /\ Distributed) =>
          \E sorted \in SortedByName : SlicedFrom(sorted)
    /\ (strategy = "sliced" /\ files_range # <<>>) => error # "distribute"
    /\ \A k \in 0..(Len(files_range) - 1) :
          SlicedWorker(k, Len(files_range), jobs) < jobs
    /\ (strategy = "sliced" /\ Distributed /\ archive = ArchThreeFolders
           /\ jobs = 2) =>
          thread_idxs = << <<0, 1, 4>>, <<2, 3>> >>

C19_Witness ==
    /\ strategy = "sliced" /\ Distributed /\ jobs = 2
    /\ archive = ArchThreeFolders
    /\ files_range[1].index = 4 /\ files_range[5].index = 0
    /\ thread_idxs = << <<0, 1, 4>>, <<2, 3>> >>

\* The orders of the files range in which no size is followed by a larger.
SortedBySize ==
    { sorted \in { [ i \in DOMAIN files_range |-> files_range[q[i]] ]
                     : q \in Perms(Len(files_range)) } :
        \A i, j \in DOMAIN sorted : i < j => sorted[i].size >= sorted[j].size }

\* The worker (from 1) whose list holds the index idx.
OwnerOf(idx) == CHOOSE t \in 1..jobs : idx \in Range(thread_idxs[t])

\* The bytes handed to worker t before the k-th file of sorted is placed.
TotalBefore(sorted, k, t) ==
    SumSeq([ j \in 1..(k - 1) |->
               IF OwnerOf(sorted[j].index) = t THEN sorted[j].size ELSE 0 ])

\* The place of the index idx in the order sorted.
PlaceIn(sorted, idx) == CHOOSE k \in DOMAIN sorted : sorted[k].index = idx

\* The lists are those of the greedy rule applied to the order sorted.
GreedyFrom(sorted) ==
    /\ \A k \in DOMAIN sorted :
          /\ \E t \in 1..jobs : sorted[k].index \in Range(thread_idxs[t])
          /\ LET w == OwnerOf(sorted[k].index)
             IN  \A t \in 1..jobs :
                     \/ TotalBefore(sorted, k, w) < TotalBefore(sorted, k, t)
                     \/ /\ TotalBefore(sorted, k, w) = TotalBefore(sorted, k, t)
                        /\ w <= t
    /\ \A t \in 1..jobs : \A a, b \in DOMAIN thread_idxs[t] :
          a < b => PlaceIn(sorted, thread_idxs[t][a])
                     < PlaceIn(sorted, thread_idxs[t][b])
    /\ SumSeq([ t \in 1..jobs |-> Len(thread_idxs[t]) ]) = Len(sorted)

\* The bytes of the entries whose indices the list idxs holds.
BytesOf(idxs) ==
    SumSeq([ a \in DOMAIN idxs |->
               (CHOOSE zs \in Range(archive) : zs.index = idxs[a]).size ])

\* C20: the bytes strategy takes the files in an order of non-increasing
\* size and hands each to the worker whose total of bytes is least at that
\* moment, the lowest worker winning a tie, and adds the size of the file
\* to that total; for the sizes 100, 90, 50, 40, 20 and two workers the
\* totals come to 160 and 140.
C20_BytesRule ==
    /\ (strategy = "bytes" /\ Distributed) =>
          \E sorted \in SortedBySize : GreedyFrom(sorted)
    /\ (strategy = "bytes" /\ Distributed /\ archive = ArchThreeFolders
           /\ jobs = 2) =>
          /\ BytesOf(thread_idxs[1]) = 160
          /\ BytesOf(thread_idxs[2]) = 140

C20_Witness ==
    /\ strategy = "bytes" /\ Distributed /\ jobs = 2
    /\ archive = ArchThreeFolders
    /\ files_range[1].index = 3 /\ files_range[5].index = 0
    /\ thread_idxs = << <<0, 3, 4>>, <<1, 2>> >>

\* The folders of the files range, and the files of one folder.
FoldersOfFiles == { folder(files_range[i]) : i \in DOMAIN files_range }

FilesIn(key) == { i \in DOMAIN files_range : folder(files_range[i]) = key }

\* The metric of a folder: for each of its files, its size and the cost of
\* one file.
MetricOf(key) ==
    SumSeq([ i \in DOMAIN files_range |->
               IF i \in FilesIn(key)
               THEN size_weight * files_range[i].size + file_weight ELSE 0 ])

\* The orders of the folders in which no metric is followed by a larger.
FoldersByMetric ==
    { order \in [ 1..Cardinality(FoldersOfFiles) -> FoldersOfFiles ] :
        /\ \A i, j \in DOMAIN order : i # j => order[i] # order[j]
        /\ \A i, j \in DOMAIN order :
              i < j => MetricOf(order[i]) >= MetricOf(order[j]) }

\* The worker of a folder whose files are all with one worker.
FolderOwner(key) ==
    OwnerOf(files_range[CHOOSE i \in FilesIn(key) : TRUE].index)

\* The metric handed to worker t before the k-th folder of order is placed.
MetricBefore(order, k, t) ==
    SumSeq([ j \in 1..(k - 1) |->
               IF FolderOwner(order[j]) = t THEN MetricOf(order[j]) ELSE 0 ])

\* The place in the list of its worker of the file at position i.
PlaceOfFile(i) ==
    LET list == thread_idxs[OwnerOf(files_range[i].index)]
    IN  CHOOSE a \in DOMAIN list : list[a] = files_range[i].index

\* The lists are those of the greedy rule applied to the folders in order.
FoldersGreedyFrom(order) ==
    /\ \A k \in DOMAIN order :
          LET w == FolderOwner(order[k])
          IN  \A t \in 1..jobs :
                  \/ MetricBefore(order, k, w) < MetricBefore(order, k, t)
                  \/ /\ MetricBefore(order, k, w) = MetricBefore(order, k, t)
                     /\ w <= t
    /\ \A k, l \in DOMAIN order : \A i \in FilesIn(order[k]), j \in FilesIn(order[l]) :
          (FolderOwner(order[k]) = FolderOwner(order[l])
             /\ (k < l \/ (k = l /\ i < j)))
            => PlaceOfFile(i) < PlaceOfFile(j)

\* C21: the by-folder strategy (registered as folder_runtime) hands every
\* file to a worker, two files of one folder to the same worker, and the
\* folders in an order of non-increasing metric, each to the worker whose
\* accumulated metric is least at that moment, the lowest worker winning a
\* tie.
C21_FoldersKeptWhole ==
    (strategy = "folder_runtime" /\ Distributed) =>
        /\ \A i \in DOMAIN files_range :
              \E t \in 1..jobs : files_range[i].index \in Range(thread_idxs[t])
        /\ \A i, j \in DOMAIN files_range :
              folder(files_range[i]) = folder(files_range[j]) =>
                  OwnerOf(files_range[i].index) = OwnerOf(files_range[j].index)
        /\ \E order \in FoldersByMetric : FoldersGreedyFrom(order)

C21_Witness ==
    /\ strategy = "folder_runtime" /\ Distributed /\ jobs = 2
    /\ archive = ArchThreeFolders
    /\ files_range[1].index = 4 /\ files_range[2].index = 1
    /\ files_range[3].index = 2 /\ files_range[4].index = 0
    /\ thread_idxs = << <<1, 0>>, <<2, 3, 4>> >>

\* The worker w has computed the temporary name of an entry.
HasTmpName(w) == wpc[w] \in { "read", "rename" }

\* The basename of the entry the worker w is extracting.
BaseOf(w) == basename(FilePath(wk[w].name))

WorkerMoves ==
    { << "unborn", "start" >>, << "start", "loop" >>, << "loop", "read" >>,
      << "read", "read" >>, << "read", "rename" >>, << "rename", "timestamp" >>,
      << "timestamp", "loop" >> }

\* The index of the entry the worker w is at.
IdxOf(w) == thread_idxs[w][wk[w].pos]

\* One step seen from the worker w: it moves along WorkerMoves or leaves;
\* extract_to opens the temporary name of the entry at its position; the
\* counters and the position advance together, after the timestamp; and
\* set_timestamp is called then, on the name of the entry, iff the time is
\* not zero.
WorkerInOrder(w) ==
    LET from    == wpc[w]
        to      == wpc'[w]
        counted == from = "timestamp" /\ to = "loop"
    IN  /\ \/ << from, to >> \in WorkerMoves
           \/ from = to
           \/ from \notin { "unborn", "done", "escaped" } /\ to \in { "done", "escaped" }
        /\ wk'[w].pos = wk[w].pos + (IF counted THEN 1 ELSE 0)
        /\ outputs'[w].files = outputs[w].files + (IF counted THEN 1 ELSE 0)
        /\ outputs'[w].bytes
              = outputs[w].bytes + (IF counted THEN ZipAt(IdxOf(w)).size ELSE 0)
        /\ (from = "loop" /\ to = "read") =>
              /\ wk'[w].name = ZipAt(IdxOf(w)).name
              /\ wk'[w].tmp_name = get_tmp_name(short_exts, wk'[w].name)
              /\ opened' = opened \cup { << w, IdxOf(w), OSPath(wk'[w].tmp_name) >> }
        /\ (from = "rename" /\ to = "timestamp") =>
              /\ OSPath(wk[w].name) \in DOMAIN fs'.names
              /\ wk[w].tmp_name # wk[w].name =>
                    OSPath(wk[w].tmp_name) \notin DOMAIN fs'.names
        /\ counted =>
              LET t == ApplyTSXForm(ts_xform, ZipAt(IdxOf(w)).mtime)
              IN  ts_calls' = ts_calls \cup
                      (IF t # 0 THEN { << IdxOf(w), ZipAt(IdxOf(w)).name, t >> }
                                ELSE {})

\* C23: a worker takes the entries of its list in the order of the list,
\* and for each entry extract_to on the temporary name, rename_file to the
\* name, set_timestamp and the counters follow each other in this order;
\* set_timestamp is called iff ts_xform of the archived mtime is not zero,
\* on the name of the entry and after the rename; no other step calls it.
C23_WorkerStepsInOrder ==
    [][ /\ \A w \in Workers : WorkerInOrder(w)
        /\ ts_calls' # ts_calls =>
              \E w \in Workers : wpc[w] = "timestamp" /\ wpc'[w] = "loop" ]_vars

C23_Witness ==
    /\ jobs = 1 /\ short_exts /\ ts_xform = "identity"
    /\ wpc[1] = "loop" /\ wk[1].pos = 4
    /\ outputs[1].files = 3 /\ outputs[1].bytes = 3
    /\ ts_calls = { << 0, <<".","h","t","m","l">>, 3 >>,
                    << 2, <<"d","/",".","a",".","h","t","m","l">>, 3 >> }

\* The positions of the calls op( name ) made on the StopWatch.
CallsOf(op, name) == { i \in DOMAIN sw.calls : sw.calls[i] = << op, name >> }

\* A stop( name ) has been called after the most recent start( name ).
StoppedSinceStart(name) ==
    \E i \in CallsOf("start", name) :
        /\ \A j \in CallsOf("start", name) : j <= i
        /\ \E j \in CallsOf("stop", name) : j > i

\* C24: after any sequence of calls, an event is complete exactly when
\* stop( name ) was called after the most recent start( name ); a start
\* leaves its event incomplete; a stop without an earlier start fails and
\* leaves both maps as they were; and a duration query succeeds exactly on
\* a complete event.
C24_CompleteIffStopped ==
    /\ \A name \in EventNames :
          event_complete(sw.watch, name) <=> StoppedSinceStart(name)
    /\ sw.last.op = "start" => ~event_complete(sw.watch, sw.last.name)
    /\ sw.last.op = "stop" =>
          /\ sw.last.ok <=> sw.last.name \in sw.last.before.start_times
          /\ sw.last.ok <=>
                \E i \in CallsOf("start", sw.last.name) : i < Len(sw.calls)
          /\ ~sw.last.ok => sw.watch = sw.last.before
    /\ sw.last.op = "milliseconds" =>
          /\ sw.last.ok <=> StoppedSinceStart(sw.last.name)
          /\ sw.watch = sw.last.before

C24_Witness ==
    /\ sw.calls = << << "stop", "unzip" >>, << "start", "unzip" >>,
                     << "stop", "unzip" >>, << "start", "unzip" >>,
                     << "milliseconds", "unzip" >> >>
    /\ ~sw.last.ok
    /\ ~event_complete(sw.watch, "unzip")

\* No call is made twice in a sequence of calls.
NoCallTwice(calls) ==
    \A i, j \in DOMAIN calls : i # j => calls[i] # calls[j]

\* C25: in one call of mkdirs_p, whatever the list of paths, each path --
\* listed or ancestor -- is given to stat at most once and to create_folder
\* at most once.
C25_EachPathOnce ==
    /\ NoCallTwice(mk.first.calls)
    /\ NoCallTwice(mk.second.calls)

C25_Witness ==
    /\ mk.pc = "called" /\ mk.fsys0 = OldTreeFS
    /\ mk.paths = << << <<"a">>, <<"b">>, <<"c">> >>, << <<"a">>, <<"b">> >>,
                     << <<"a">>, <<"b">>, <<"c">> >> >>
    /\ mk.first.calls =
          << << "stat", << <<"a">> >> >>,
             << "stat", << <<"a">>, <<"b">> >> >>,
             << "create_folder", << <<"a">>, <<"b">> >> >>,
             << "stat", << <<"a">>, <<"b">>, <<"c">> >> >>,
             << "create_folder", << <<"a">>, <<"b">>, <<"c">> >> >> >>

\* The listed paths and their ancestors, the empty path left out.
NeededFolders ==
    UNION { { SubSeq(q, 1, n) : n \in 1..Len(q) } : q \in Range(mk.paths) }

\* The paths create_folder was called on in a sequence of calls.
CreatedIn(calls) ==
    { calls[i][2] : i \in { j \in DOMAIN calls : calls[j][1] = "create_folder" } }

\* C26: when mkdirs_p returns, every listed path and every ancestor is a
\* directory; create_folder was called only on paths that did not exist,
\* each after its parent existed; a second call on the same paths succeeds
\* and creates nothing; and the call fails when a listed path or an
\* ancestor exists and is not a directory.
C26_MkdirsIdempotent ==
    /\ (mk.pc \in { "called", "again" } /\ mk.first.ok) =>
          /\ NeededFolders \subseteq mk.fsys.dirs
          /\ \A q \in NeededFolders : ~IsFile(mk.fsys, q)
    /\ mk.fsys.dirs = mk.fsys0.dirs \cup CreatedIn(mk.first.calls)
    /\ \A i \in DOMAIN mk.first.calls :
          mk.first.calls[i][1] = "create_folder" =>
              LET q == mk.first.calls[i][2]
              IN  /\ q \notin mk.fsys0.dirs
                  /\ ~IsFile(mk.fsys0, q)
                  /\ \/ dirname(q) = << >>
                     \/ dirname(q) \in mk.fsys0.dirs
                     \/ \E j \in 1..(i - 1) :
                            mk.first.calls[j] = << "create_folder", dirname(q) >>
    /\ mk.pc = "again" => (mk.second.ok /\ CreatedIn(mk.second.calls) = {})
    /\ (mk.pc \in { "called", "again" }
          /\ \E q \in NeededFolders : IsFile(mk.fsys0, q)) => ~mk.first.ok

C26_Witness ==
    /\ mk.pc = "again" /\ mk.fsys0 = OldTreeFS
    /\ mk.paths = << << <<"a">>, <<"b">>, <<"c">> >>, << <<"d">> >>, << <<"a">> >> >>
    /\ Len(mk.first.calls) = 7
    /\ mk.second.calls =
          << << "stat", << <<"a">> >> >>,
             << "stat", << <<"a">>, <<"b">> >> >>,
             << "stat", << <<"a">>, <<"b">>, <<"c">> >> >>,
             << "stat", << <<"d">> >> >> >>

\* The workers inside the scope of the lock_guard.
Guarded == { w \in Workers : lg.pc[w] \in { "prefix", "name", "endl" } }

\* C27 as stated: when quiet is false, at most one worker at any time has a
\* line on cerr that it has begun and not ended, so that the lines of
\* different workers never interleave.
C27_OneLineAtATime ==
    ~lg.quiet => Cardinality(lg.midline) <= 1

\* C27: at most one worker at any time is inside the scope of the
\* lock_guard, where the line of a name is written from its prefix to its
\* end; the mutex is held by that worker and by no worker outside the
\* scope, whichever way the scope is left; and a worker that waits for the
\* mutex gets it.
C27_NameLinesSerialized ==
    /\ [](/\ Cardinality(Guarded) <= 1
          /\ \A w \in Workers : w \in Guarded <=> lg.mtx = w
          /\ lg.quiet => (Guarded = {} /\ lg.mtx = 0))
    /\ \A w \in Workers : (lg.pc[w] = "lock") ~> (lg.pc[w] = "prefix")

C27_Witness ==
    /\ ~lg.quiet /\ lg.mtx = 1
    /\ lg.pc[1] = "name" /\ lg.pc[2] = "lock"
    /\ lg.midline = { 1 }

\* p_unzip has returned or thrown, and no thread is left running.
Ended ==
    /\ epc \in { "done", "failed" }
    /\ njoined = nspawned
    /\ \A w \in Workers : wpc[w] = IF w <= nspawned THEN "done" ELSE "unborn"

\* C28: with one job or more, under every strategy and every scheduling in
\* which each thread that can take a step takes one in the end, p_unzip
\* ends: every loop of extract_to is left, every worker that was spawned
\* returns, every join returns, and the engine returns the summary or
\* throws; and an engine that has not ended neither has a worker in the
\* loop of extract_to that can no longer move.
C28_Terminates ==
    /\ <>[]Ended
    /\ [](\A w \in Workers :
             wpc[w] = "read" => wk[w].total <= wk[w].fsize /\ chunk_size >= 1)

C28_Witness ==
    /\ epc = "done" /\ jobs = 2 /\ njoined = 2
    /\ \A w \in 1..2 : wpc[w] = "done" /\ outputs[w].files >= 1

\* The list of the worker, empty before the distribution.
ListOf(w) == IF w \in DOMAIN thread_idxs THEN thread_idxs[w] ELSE << >>

\* The entries of the worker's list that lie before its place in the loop:
\* those whose extraction, rename and timestamp have all completed.
Completed(w) == SubSeq(ListOf(w), 1, wk[w].pos - 1)

\* The worker has returned through CATCH_ALL.
Failed(w) == wpc[w] = "done" /\ ~outputs[w].ret

\* The worker has opened the destination file of the entry.
HasOpened(w, idx) == \E call \in opened : call[1] = w /\ call[2] = idx

\* The counters of every worker, and what it has attempted.
CountersFollow ==
    \A w \in Workers :
        LET done == Completed(w)
        IN  /\ outputs[w].files = Len(done)
            /\ outputs[w].bytes =
                  SumSeq([ k \in DOMAIN done |-> ZipAt(done[k]).size ])
            /\ \A k \in DOMAIN done :
                  /\ HasOpened(w, done[k])
                  /\ IsFile(fs, OSPath(ZipAt(done[k]).name))
            /\ \A k \in DOMAIN ListOf(w) :
                  k > wk[w].pos => ~HasOpened(w, ListOf(w)[k])
            /\ (Failed(w) /\ wk[w].pos <= Len(ListOf(w))) =>
                  LET idx  == ListOf(w)[wk[w].pos]
                      name == ZipAt(idx).name
                  IN  HasOpened(w, idx) =>
                        \/ IsFile(fs, OSPath(get_tmp_name(short_exts, name)))
                        \/ IsFile(fs, OSPath(name))

\* The step in which a worker fails counts nothing and removes no file.
FailureKeeps ==
    \A w \in Workers :
        (wpc[w] # "done" /\ wpc'[w] = "done" /\ ~outputs'[w].ret) =>
            /\ outputs'[w].files = outputs[w].files
            /\ outputs'[w].bytes = outputs[w].bytes
            /\ wk'[w].pos = wk[w].pos
            /\ \A q \in DOMAIN Visible(fs) :
                  q \in DOMAIN Visible(fs') /\ Visible(fs')[q] = Visible(fs)[q]

\* C29: at every point of a worker's run its file counter is the number of
\* entries of its list whose extraction, rename and timestamp have all
\* completed and its byte counter the sum of their sizes; an entry that
\* fails is not counted, no later entry of the list is opened, and the file
\* the failed entry left on disk, under its temporary or its final name,
\* stays there.
C29_CountersFollowCompletion ==
    /\ []CountersFollow
    /\ [][FailureKeeps]_vars

\* The only worker has completed two entries and failed in the rename of
\* the third, whose file lies under its temporary name.
C29_Witness ==
    /\ jobs = 1 /\ Failed(1)
    /\ outputs[1].files = 2 /\ outputs[1].bytes = 2
    /\ wk[1].pos = 3
    /\ HasOpened(1, 2)
    /\ IsFile(fs, OSPath(get_tmp_name(TRUE, ZipAt(2).name)))
    /\ ~IsFile(fs, OSPath(ZipAt(2).name))

\* The handles that are alive and own the resource.
OwnersOf(c) ==
    { h \in Handles : hd.life[h] = "alive" /\ hd.obj[h].own /\ hd.obj[h].p = c }

\* C30: for every resource a Buffer, a File or a Zip has acquired, over
\* every sequence of move constructions, calls of destroy() and
\* destructions, at most one handle owns the resource, destroyer has run
\* for it at most once, and it has run exactly once when no living handle
\* owns the resource any more: a handle that was moved from or destroyed
\* releases nothing.
C30_OneOwnerOneRelease ==
    \A c \in Children :
        /\ Cardinality(OwnersOf(c)) <= 1
        /\ hd.ran[c] <= 1
        /\ Cardinality(OwnersOf(c)) + hd.ran[c] =
              (IF c \in hd.acquired THEN 1 ELSE 0)
        /\ \A h \in Handles : hd.obj[h].own => hd.life[h] = "alive"

\* A Buffer went through two moves; the handles it was moved from are
\* gone, the last one was destroyed and is still alive.
C30_Witness ==
    /\ hd.life[1] = "dead" /\ hd.life[2] = "dead" /\ hd.life[3] = "alive"
    /\ \A h \in 1..3 : hd.obj[h] = [ p |-> "Buffer", own |-> FALSE ]
    /\ hd.ran["Buffer"] = 1

====
